---- MODULE Spec2Model ----
(***************************************************************************)
(* Cashfree payout proof client: the bearer-token cache, the authorize     *)
(* exchange, the public/secret request descriptors and the two proof calls *)
(* of src/src/providers/cashfree/cashfree-payout.ts, as a state machine.   *)
(* Time is the value of Math.floor(Date.now() / 1000).  Every asynchronous *)
(* call is cut at its awaits: the synchronous run up to the authorize      *)
(* request, the continuation after the authorize response, and the         *)
(* continuation after the proof engine returns.                            *)
(***************************************************************************)
EXTENDS Integers, Sequences, FiniteSets, TLC

\* ---------------------------------------------------------------- bounds
\* Calls that may be in flight on the one client at the same time.
MaxCalls == 2
\* The clock stops advancing here while calls overlap.
MaxTime == 240
\* The clock stops advancing here while calls run one at a time.
SeqMaxTime == 480
\* Seconds the clock advances in one step.
TickStep == 120
\* The clock value at which the client is constructed.
StartTime == 0

\* ------------------------------------------------------ program constants
\* cashfree-payout.ts:162,181 - seconds a stored token is served.
CacheWindow == 240
\* cashfree-payout.ts:161,180 - "tokens last ~5 min".
TokenLifetime == 300

\* A JavaScript undefined string-valued slot.
Undefined == "undefined"
\* bearerTokenExpiry?: number, while unset.
NoExpiry == -1

DEFAULT_API_VERSION == "2024-01-01"

CASHFREE_DOMAINS ==
    [production |-> "https://api.cashfree.com",
     sandbox    |-> "https://sandbox.cashfree.com"]

CASHFREE_AUTH_DOMAINS ==
    [production |-> "https://payout-api.cashfree.com",
     sandbox    |-> "https://payout-gamma.cashfree.com"]

CASHFREE_ENDPOINTS ==
    [createTransfer    |-> "/payout/transfers",
     getTransferStatus |-> "/payout/transfers",
     batchTransfer     |-> "/payout/transfers/batch",
     authorize         |-> "/payout/v1/authorize"]

\* ------------------------------------------------------------ JS helpers
\* Truthiness of a string-valued slot (undefined and "" are falsy).
TruthyStr(s) == s # Undefined /\ s # ""
\* Truthiness of a number-valued slot (undefined and 0 are falsy).
TruthyNum(n) == n # NoExpiry /\ n # 0
\* a || b on strings.
OrElse(a, b) == IF TruthyStr(a) THEN a ELSE b
\* obj.key, undefined when the key is absent.
Get(obj, key) == IF key \in DOMAIN obj THEN obj[key] ELSE Undefined

\* The empty header map.
NoHeaders == [h \in {} |-> ""]

\* ------------------------------------------------------------ key material
ValidPem == "-----BEGIN PUBLIC KEY----- valid"
InvalidPem == "not a key"

\* A variant that produces a value from any key material and never throws.
generateCfSignatureLenient(clientId, rsaPublicKey, timestamp) ==
    [ok |-> TRUE,
     value |-> "rsa-oaep(" \o clientId \o "." \o ToString(timestamp) \o ")"]

\* generateCfSignature: encrypts "clientId.timestamp" under the key; invalid key
\* material makes crypto.publicEncrypt throw.
generateCfSignature(clientId, rsaPublicKey, timestamp) ==
    IF rsaPublicKey = ValidPem
    THEN [ok |-> TRUE,
          value |-> "rsa-oaep(" \o clientId \o "." \o ToString(timestamp) \o ")"]
    ELSE [ok |-> FALSE, value |-> Undefined]

\* ------------------------------------------------------------ inputs
\* CashfreePayoutConfig values a caller may construct the client with.
Configs ==
    [clientId     : {"CF_CLIENT"},
     clientSecret : {"cfsk_secret"},
     rsaPublicKey : {Undefined, ValidPem, InvalidPem},
     bearerToken  : {Undefined, "B"},
     apiVersion   : {Undefined},
     environment  : {Undefined, "sandbox"},
     useTee       : {FALSE},
     geoLocation  : {Undefined}]

\* Seconds a pre-obtained token may already have lived when the client is built.
PreAges == {0, TokenLifetime - CacheWindow, TokenLifetime - TickStep, TokenLifetime}

\* Tokens the authorization server hands out.
ServerTokens == {"T1", "T2"}

\* ------------------------------------------------------------ constructor
\* A variant that ignores a pre-obtained bearer token.
ConstructorUnseeded(config, t) ==
    LET environment == OrElse(config.environment, "production")
    IN  [environment       |-> environment,
         baseUrl           |-> CASHFREE_DOMAINS[environment],
         clientId          |-> config.clientId,
         clientSecret      |-> config.clientSecret,
         rsaPublicKey      |-> config.rsaPublicKey,
         apiVersion        |-> OrElse(config.apiVersion, DEFAULT_API_VERSION),
         useTee            |-> config.useTee,
         geoLocation       |-> config.geoLocation,
         cachedBearerToken |-> Undefined,
         bearerTokenExpiry |-> NoExpiry]

\* A variant that takes an omitted environment to mean the sandbox.
ConstructorSandboxDefault(config, t) ==
    LET environment == OrElse(config.environment, "sandbox")
        seeded == TruthyStr(config.bearerToken)
    IN  [environment       |-> environment,
         baseUrl           |-> CASHFREE_DOMAINS[environment],
         clientId          |-> config.clientId,
         clientSecret      |-> config.clientSecret,
         rsaPublicKey      |-> config.rsaPublicKey,
         apiVersion        |-> OrElse(config.apiVersion, DEFAULT_API_VERSION),
         useTee            |-> config.useTee,
         geoLocation       |-> config.geoLocation,
         cachedBearerToken |-> IF seeded THEN config.bearerToken ELSE Undefined,
         bearerTokenExpiry |-> IF seeded THEN t + CacheWindow ELSE NoExpiry]

\* The fields of a CashfreePayoutClient built from config at time t.
Constructor(config, t) ==
    LET environment == OrElse(config.environment, "production")
        seeded == TruthyStr(config.bearerToken)
    IN  [environment       |-> environment,
         baseUrl           |-> CASHFREE_DOMAINS[environment],
         clientId          |-> config.clientId,
         clientSecret      |-> config.clientSecret,
         rsaPublicKey      |-> config.rsaPublicKey,
         apiVersion        |-> OrElse(config.apiVersion, DEFAULT_API_VERSION),
         useTee            |-> config.useTee,
         geoLocation       |-> config.geoLocation,
         cachedBearerToken |-> IF seeded THEN config.bearerToken ELSE Undefined,
         bearerTokenExpiry |-> IF seeded THEN t + CacheWindow ELSE NoExpiry]

\* ------------------------------------------------------------ token cache
\* A variant that never trusts the stored token.
CacheFreshNever(token, expiry, now) == FALSE

\* A variant that still serves the stored token at now = expiry.
CacheFreshInclusive(token, expiry, now) ==
    TruthyStr(token) /\ TruthyNum(expiry) /\ now <= expiry

\* A variant that serves any stored token, whatever its expiry.
CacheFreshForever(token, expiry, now) == TruthyStr(token)

\* ensureBearerToken's test: serve the stored token only while now < expiry.
CacheFresh(token, expiry, now) ==
    TruthyStr(token) /\ TruthyNum(expiry) /\ now < expiry

\* The expiry ensureBearerToken stores with a token it obtained, from the clock
\* value it read on entry.
RefreshedExpiry(now) == now + CacheWindow

\* ------------------------------------------------------------ authorize
\* Ways the authorize request can end: the response body arrived ('end') or
\* the request failed ('error').
AuthBodies ==
    {[json |-> TRUE, status |-> "SUCCESS", token |-> t, message |-> Undefined,
      raw |-> "{\"status\":\"SUCCESS\",\"data\":{\"token\":\"" \o t \o "\"}}"] :
        t \in ServerTokens}
    \cup {[json |-> TRUE, status |-> "SUCCESS", token |-> Undefined, message |-> Undefined,
           raw |-> "{\"status\":\"SUCCESS\"}"],
          [json |-> TRUE, status |-> "SUCCESS", token |-> "", message |-> "",
           raw |-> "{\"status\":\"SUCCESS\",\"message\":\"\",\"data\":{\"token\":\"\"}}"],
          [json |-> TRUE, status |-> "ERROR", token |-> Undefined,
           message |-> "Invalid clientId and clientSecret combination",
           raw |-> "{\"status\":\"ERROR\",\"message\":\"Invalid clientId and clientSecret combination\"}"],
          [json |-> TRUE, status |-> "ERROR", token |-> "T1", message |-> Undefined,
           raw |-> "{\"status\":\"ERROR\",\"data\":{\"token\":\"T1\"}}"],
          [json |-> FALSE, status |-> Undefined, token |-> Undefined, message |-> Undefined,
           raw |-> "<html>Bad Gateway</html>"]}

\* No body: the request failed before a response ended.
NoBody ==
    [json |-> FALSE, status |-> Undefined, token |-> Undefined, message |-> Undefined,
     raw |-> ""]

AuthResponses ==
    {[event |-> "end", body |-> b] : b \in AuthBodies}
    \cup {[event |-> "error", body |-> NoBody]}

\* The response stream is aborted, or errors, after the response began and
\* before its 'end': the request emits no 'error' any more and the response has
\* listeners for 'data' and 'end' only.
StreamAborted == [event |-> "aborted", body |-> NoBody]

\* Every way an authorize request can end.
AuthEndings == AuthResponses \cup {StreamAborted}

\* A variant that sends the authorize request without a signature, key or no key.
AuthorizeRequestUnsigned(clientId, clientSecret, rsaPublicKey, now) ==
    [ok |-> TRUE,
     headers |-> [h \in {"X-Client-Id", "X-Client-Secret", "Content-Type"} |->
                     CASE h = "X-Client-Id" -> clientId
                       [] h = "X-Client-Secret" -> clientSecret
                       [] OTHER -> "application/json"]]

\* The request headers cashfreeAuthorize sends; signing may throw.
AuthorizeRequest(clientId, clientSecret, rsaPublicKey, now) ==
    LET sig == generateCfSignature(clientId, rsaPublicKey, now)
        keys == {"X-Client-Id", "X-Client-Secret", "Content-Type"}
                \cup (IF TruthyStr(rsaPublicKey) THEN {"X-Cf-Signature"} ELSE {})
    IN  IF TruthyStr(rsaPublicKey) /\ ~sig.ok
        THEN [ok |-> FALSE, headers |-> NoHeaders]
        ELSE [ok |-> TRUE,
              headers |-> [h \in keys |->
                  CASE h = "X-Client-Id" -> clientId
                    [] h = "X-Client-Secret" -> clientSecret
                    [] h = "Content-Type" -> "application/json"
                    [] OTHER -> sig.value]]

\* A variant that takes the token of any JSON body, whatever its status.
AuthorizeSettleAnyStatus(resp) ==
    IF resp.event = "error"
    THEN [ok |-> FALSE, token |-> Undefined, error |-> "request error"]
    ELSE IF ~resp.body.json
    THEN [ok |-> FALSE, token |-> Undefined,
          error |-> "Cashfree authorize: invalid response: " \o resp.body.raw]
    ELSE IF TruthyStr(resp.body.token)
    THEN [ok |-> TRUE, token |-> resp.body.token, error |-> Undefined]
    ELSE [ok |-> FALSE, token |-> Undefined,
          error |-> "Cashfree authorize failed: "
                        \o OrElse(resp.body.message, resp.body.raw)]

\* How cashfreeAuthorize settles its promise for a response.
AuthorizeSettle(resp) ==
    IF resp.event = "error"
    THEN [ok |-> FALSE, token |-> Undefined, error |-> "request error"]
    ELSE IF ~resp.body.json
    THEN [ok |-> FALSE, token |-> Undefined,
          error |-> "Cashfree authorize: invalid response: " \o resp.body.raw]
    ELSE IF resp.body.status = "SUCCESS" /\ TruthyStr(resp.body.token)
    THEN [ok |-> TRUE, token |-> resp.body.token, error |-> Undefined]
    ELSE [ok |-> FALSE, token |-> Undefined,
          error |-> "Cashfree authorize failed: "
                        \o OrElse(resp.body.message, resp.body.raw)]

\* ------------------------------------------------------------ descriptors
\* A variant that also sends the content type among the secret headers.
buildSecretHeadersTyped(this, token, now) ==
    LET sig == generateCfSignature(this.clientId, this.rsaPublicKey, now)
        keys == {"Authorization", "x-client-id", "x-client-secret", "Content-Type"}
                \cup (IF TruthyStr(this.rsaPublicKey) THEN {"X-Cf-Signature"} ELSE {})
    IN  IF TruthyStr(this.rsaPublicKey) /\ ~sig.ok
        THEN [ok |-> FALSE, headers |-> NoHeaders]
        ELSE [ok |-> TRUE,
              headers |-> [h \in keys |->
                  CASE h = "Authorization" -> "Bearer " \o token
                    [] h = "x-client-id" -> this.clientId
                    [] h = "x-client-secret" -> this.clientSecret
                    [] h = "Content-Type" -> "application/json"
                    [] OTHER -> sig.value]]

\* buildSecretHeaders after the token is known; signing may throw.
buildSecretHeaders(this, token, now) ==
    LET sig == generateCfSignature(this.clientId, this.rsaPublicKey, now)
        keys == {"Authorization", "x-client-id", "x-client-secret"}
                \cup (IF TruthyStr(this.rsaPublicKey) THEN {"X-Cf-Signature"} ELSE {})
    IN  IF TruthyStr(this.rsaPublicKey) /\ ~sig.ok
        THEN [ok |-> FALSE, headers |-> NoHeaders]
        ELSE [ok |-> TRUE,
              headers |-> [h \in keys |->
                  CASE h = "Authorization" -> "Bearer " \o token
                    [] h = "x-client-id" -> this.clientId
                    [] h = "x-client-secret" -> this.clientSecret
                    [] OTHER -> sig.value]]

\* A variant that also puts the client id among the public headers.
buildPublicOptionsLeaky(this, method, body, context) ==
    [method      |-> method,
     headers     |-> [h \in {"Content-Type", "x-api-version", "x-client-id"} |->
                         CASE h = "Content-Type" -> "application/json"
                           [] h = "x-client-id" -> this.clientId
                           [] OTHER -> this.apiVersion],
     body        |-> body,
     useTee      |-> this.useTee,
     geoLocation |-> this.geoLocation,
     context     |-> context]

buildPublicOptions(this, method, body, context) ==
    [method      |-> method,
     headers     |-> [h \in {"Content-Type", "x-api-version"} |->
                         IF h = "Content-Type" THEN "application/json"
                         ELSE this.apiVersion],
     body        |-> body,
     useTee      |-> this.useTee,
     geoLocation |-> this.geoLocation,
     context     |-> context]

buildSecretOptions(secretHeaders, responseMatches, responseRedactions) ==
    [headers            |-> secretHeaders,
     responseMatches    |-> responseMatches,
     responseRedactions |-> responseRedactions]

\* ------------------------------------------------------------ extraction rules
TRANSFER_STATUS_REDACTIONS ==
    [transferId     |-> [jsonPath |-> "$.transfer_id"],
     cfTransferId   |-> [jsonPath |-> "$.cf_transfer_id"],
     status         |-> [jsonPath |-> "$.status"],
     transferAmount |-> [jsonPath |-> "$.transfer_amount"]]

TRANSFER_CREATION_REDACTIONS ==
    [transferId   |-> [jsonPath |-> "$.transfer_id"],
     cfTransferId |-> [jsonPath |-> "$.cf_transfer_id"],
     status       |-> [jsonPath |-> "$.status"],
     statusCode   |-> [jsonPath |-> "$.status_code"]]

\* The named-capture pattern that extracts a quoted string field.
StringFieldRegex(field) ==
    "\"" \o field \o "\"\\s*:\\s*\"(?<" \o field \o ">[^\"]+)\""

\* The named-capture pattern that extracts transfer_amount (an unquoted number).
AmountRegex == "\"transfer_amount\"\\s*:\\s*(?<transfer_amount>[\\d.]+)"

\* A variant in which the caller's rules replace the defaults.
getTransferStatusRedactionsReplacing(additionalExtractions) ==
    LET defaults == <<TRANSFER_STATUS_REDACTIONS.transferId,
                      TRANSFER_STATUS_REDACTIONS.cfTransferId,
                      TRANSFER_STATUS_REDACTIONS.status,
                      TRANSFER_STATUS_REDACTIONS.transferAmount>>
    IN  IF Len(additionalExtractions) > 0
        THEN additionalExtractions
        ELSE defaults

getTransferStatusRedactions(additionalExtractions) ==
    LET defaults == <<TRANSFER_STATUS_REDACTIONS.transferId,
                      TRANSFER_STATUS_REDACTIONS.cfTransferId,
                      TRANSFER_STATUS_REDACTIONS.status,
                      TRANSFER_STATUS_REDACTIONS.transferAmount>>
    IN  IF Len(additionalExtractions) > 0
        THEN defaults \o additionalExtractions
        ELSE defaults

getTransferCreationRedactions ==
    <<TRANSFER_CREATION_REDACTIONS.transferId,
      TRANSFER_CREATION_REDACTIONS.cfTransferId,
      TRANSFER_CREATION_REDACTIONS.status,
      TRANSFER_CREATION_REDACTIONS.statusCode>>

\* A variant that puts the status assertion after the extraction rules.
getTransferStatusMatchesAssertLast(expectedStatus) ==
    <<[type |-> "regex", value |-> StringFieldRegex("transfer_id")],
      [type |-> "regex", value |-> StringFieldRegex("cf_transfer_id")],
      [type |-> "regex", value |-> StringFieldRegex("status")],
      [type |-> "regex", value |-> AmountRegex]>>
    \o (IF TruthyStr(expectedStatus)
        THEN <<[type |-> "contains",
                value |-> "\"status\":\"" \o expectedStatus \o "\""]>>
        ELSE <<>>)

\* A variant whose transfer_amount pattern expects a quoted string.
getTransferStatusMatchesQuotedAmount(expectedStatus) ==
    (IF TruthyStr(expectedStatus)
     THEN <<[type |-> "contains",
             value |-> "\"status\":\"" \o expectedStatus \o "\""]>>
     ELSE <<>>)
    \o <<[type |-> "regex", value |-> StringFieldRegex("transfer_id")],
         [type |-> "regex", value |-> StringFieldRegex("cf_transfer_id")],
         [type |-> "regex", value |-> StringFieldRegex("status")],
         [type |-> "regex", value |-> StringFieldRegex("transfer_amount")]>>

getTransferStatusMatches(expectedStatus) ==
    (IF TruthyStr(expectedStatus)
     THEN <<[type |-> "contains",
             value |-> "\"status\":\"" \o expectedStatus \o "\""]>>
     ELSE <<>>)
    \o <<[type |-> "regex", value |-> StringFieldRegex("transfer_id")],
         [type |-> "regex", value |-> StringFieldRegex("cf_transfer_id")],
         [type |-> "regex", value |-> StringFieldRegex("status")],
         [type |-> "regex", value |-> AmountRegex]>>

getTransferCreationMatches ==
    <<[type |-> "contains", value |-> "\"cf_transfer_id\""],
      [type |-> "regex", value |-> StringFieldRegex("transfer_id")],
      [type |-> "regex", value |-> StringFieldRegex("cf_transfer_id")],
      [type |-> "regex", value |-> StringFieldRegex("status")],
      [type |-> "regex", value |-> StringFieldRegex("status_code")]>>

\* ------------------------------------------------------------ call inputs
\* encodeURIComponent on the transfer ids used here: unreserved characters are
\* kept, a space becomes %20.
encodeURIComponent(s) == IF s = "t 2" THEN "t%202" ELSE s

\* JSON.stringify of a transfer request.
JSONstringify(req) ==
    "{\"transfer_id\":\"" \o req.transfer_id \o "\",\"transfer_amount\":"
        \o ToString(req.transfer_amount) \o ",\"transfer_mode\":\""
        \o req.transfer_mode \o "\"}"

StatusOptions ==
    {[transferId |-> "t1", expectedStatus |-> Undefined,
      additionalExtractions |-> <<>>, context |-> Undefined,
      retries |-> Undefined, retryInterval |-> Undefined],
     [transferId |-> "t 2", expectedStatus |-> "FAILED",
      additionalExtractions |-> <<[jsonPath |-> "$.x"]>>, context |-> "ctx",
      retries |-> "3", retryInterval |-> "500"],
     [transferId |-> "t1", expectedStatus |-> "SUCCESS",
      additionalExtractions |-> <<[jsonPath |-> "$.status"], [jsonPath |-> "$.y"]>>,
      context |-> Undefined, retries |-> Undefined, retryInterval |-> Undefined]}

CreationOptions ==
    {[transferRequest |-> [transfer_id |-> "new1", transfer_amount |-> 100,
                           transfer_mode |-> "upi"],
      context |-> "ctx", retries |-> Undefined, retryInterval |-> Undefined]}

HeaderOptions == {[none |-> TRUE]}

\* The inputs of overlapping calls: one option value per kind of call.
OverlapConfigs == {cfg \in Configs : cfg.environment = "sandbox"}

OverlapOptionsOf(kind) ==
    CASE kind = "proveTransferStatus" ->
            {o \in StatusOptions : o.expectedStatus = "FAILED"}
      [] kind = "proveTransferCreation" -> CreationOptions
      [] OTHER -> HeaderOptions

Kinds == {"getSecretHeaders", "proveTransferStatus", "proveTransferCreation"}

OptionsOf(kind) ==
    CASE kind = "proveTransferStatus" -> StatusOptions
      [] kind = "proveTransferCreation" -> CreationOptions
      [] OTHER -> HeaderOptions

\* What the proof engine may hand back: a proof, no proof, or a thrown error.
Proofs ==
    {[id |-> "p1",
      extractedParameterValues |->
          [transfer_id |-> "t1", status |-> "PENDING", cf_transfer_id |-> "cf1"]],
     [id |-> "p2"],
     [id |-> "p3",
      extractedParameterValues |->
          [transfer_id |-> "", status |-> "SUCCESS", transfer_amount |-> "100.5"]]}

EngineReturns ==
    {[type |-> "proof", proof |-> p] : p \in Proofs}
    \cup {[type |-> "null", proof |-> [id |-> "null"]],
          [type |-> "throw", proof |-> [id |-> "null"]]}

OverlapEngineReturns == {r \in EngineReturns : r.proof.id \notin {"p2", "p3"}}

\* ------------------------------------------------------------ result parsing
\* proof.extractedParameterValues || {}
ExtractedOf(proof) ==
    IF "extractedParameterValues" \in DOMAIN proof
    THEN proof.extractedParameterValues
    ELSE [k \in {} |-> ""]

\* A variant that does not fall back to the caller's transfer id.
ParseStatusResultNoFallback(proof, options) ==
    LET extracted == ExtractedOf(proof)
    IN  [proof          |-> proof,
         transferId     |-> OrElse(Get(extracted, "transfer_id"), ""),
         status         |-> OrElse(Get(extracted, "status"), ""),
         cfTransferId   |-> OrElse(Get(extracted, "cf_transfer_id"), ""),
         transferAmount |-> Get(extracted, "transfer_amount")]

ParseStatusResult(proof, options) ==
    LET extracted == ExtractedOf(proof)
    IN  [proof          |-> proof,
         transferId     |-> OrElse(Get(extracted, "transfer_id"), options.transferId),
         status         |-> OrElse(Get(extracted, "status"), ""),
         cfTransferId   |-> OrElse(Get(extracted, "cf_transfer_id"), ""),
         transferAmount |-> Get(extracted, "transfer_amount")]

\* A variant that writes the values it derived back into the proof.
ParseCreationResultWritingBack(proof, options) ==
    LET extracted == ExtractedOf(proof)
        derived == [transfer_id    |-> OrElse(Get(extracted, "transfer_id"), ""),
                    status         |-> OrElse(Get(extracted, "status"), ""),
                    cf_transfer_id |-> OrElse(Get(extracted, "cf_transfer_id"), "")]
    IN  [proof        |-> [id |-> proof.id, extractedParameterValues |-> derived],
         transferId   |-> derived.transfer_id,
         status       |-> derived.status,
         cfTransferId |-> derived.cf_transfer_id]

ParseCreationResult(proof, options) ==
    LET extracted == ExtractedOf(proof)
    IN  [proof        |-> proof,
         transferId   |-> OrElse(Get(extracted, "transfer_id"), ""),
         status       |-> OrElse(Get(extracted, "status"), ""),
         cfTransferId |-> OrElse(Get(extracted, "cf_transfer_id"), "")]

\* ------------------------------------------------------------ state
VARIABLES
    config,             \* the CashfreePayoutConfig the constructor was given
    self,               \* the client's fields set once by the constructor
    cachedBearerToken,  \* CashfreePayoutClient.cachedBearerToken
    bearerTokenExpiry,  \* CashfreePayoutClient.bearerTokenExpiry
    clock,              \* Math.floor(Date.now() / 1000)
    calls,              \* the calls made on the client, each at its await point
    trueExpiry,         \* server side: when the token now in the cache stops working
    held,               \* caller side: the header map a getSecretHeaders caller kept
    rules               \* patterns module: its constants, a caller's array, the lists returned

vars == <<config, self, cachedBearerToken, bearerTokenExpiry, clock, calls, trueExpiry,
          held, rules>>

Calls == 1 .. MaxCalls

ConfigFields ==
    {"environment", "baseUrl", "clientId", "clientSecret", "rsaPublicKey",
     "apiVersion", "useTee", "geoLocation"}

Absent == [absent |-> TRUE]

IdleCall ==
    [pc            |-> "idle",
     kind          |-> "none",
     options       |-> Absent,
     url           |-> Undefined,
     publicOptions |-> Absent,
     now           |-> 0,
     seenToken     |-> Undefined,
     seenExpiry    |-> NoExpiry,
     seenTrueExpiry |-> NoExpiry,
     source        |-> "none",
     authRequest   |-> Absent,
     authResponse  |-> Absent,
     granted       |-> Undefined,
     token         |-> Undefined,
     secretHeaders |-> NoHeaders,
     secretOpts    |-> Absent,
     authSent      |-> 0,
     engineCalls   |-> 0,
     engineArgs    |-> Absent,
     engineReturn  |-> Absent,
     stages        |-> <<>>,
     result        |-> Absent,
     error         |-> Undefined]

\* The patterns module once loaded: its shared constants, the array a caller
\* holds for its extra rules, the lists the last calls returned to the caller,
\* and the calls made so far.
RulesAtLoad ==
    [shared     |-> TRANSFER_STATUS_REDACTIONS,
     input      |-> <<>>,
     redactions |-> <<>>,
     matches    |-> <<>>,
     log        |-> <<>>]

\* The state right after new CashfreePayoutClient(config), for a config of
\* configs and, when it carries a pre-obtained token, an age of that token in ages.
InitWith(configs, ages) ==
    \E cfg \in configs, age \in ages :
        LET built == Constructor(cfg, StartTime)
        IN  /\ config = cfg
            /\ self = [f \in ConfigFields |-> built[f]]
            /\ cachedBearerToken = built.cachedBearerToken
            /\ bearerTokenExpiry = built.bearerTokenExpiry
            /\ clock = StartTime
            /\ calls = [c \in Calls |-> IdleCall]
            /\ trueExpiry = IF TruthyStr(cfg.bearerToken)
                            THEN StartTime + TokenLifetime - age
                            ELSE NoExpiry
            /\ held = NoHeaders
            /\ rules = RulesAtLoad

\* ------------------------------------------------------------ call steps
\* The client object, as its methods see it through `this`.
This ==
    [f \in ConfigFields \cup {"cachedBearerToken", "bearerTokenExpiry"} |->
        CASE f = "cachedBearerToken" -> cachedBearerToken
          [] f = "bearerTokenExpiry" -> bearerTokenExpiry
          [] OTHER -> self[f]]

\* The synchronous head of a call: the url and the public options.
CallHead(kind, options) ==
    CASE kind = "proveTransferStatus" ->
            [IdleCall EXCEPT
                !.kind = kind, !.options = options,
                !.url = self.baseUrl \o CASHFREE_ENDPOINTS.getTransferStatus
                        \o "?transfer_id=" \o encodeURIComponent(options.transferId),
                !.publicOptions =
                    buildPublicOptions(This, "GET", Undefined, options.context)]
      [] kind = "proveTransferCreation" ->
            [IdleCall EXCEPT
                !.kind = kind, !.options = options,
                !.url = self.baseUrl \o CASHFREE_ENDPOINTS.createTransfer,
                !.publicOptions =
                    buildPublicOptions(This, "POST",
                        JSONstringify(options.transferRequest), options.context)]
      [] OTHER -> [IdleCall EXCEPT !.kind = kind, !.options = options]

\* The rules of the secret descriptor of a proof call.
MatchesOf(call) ==
    IF call.kind = "proveTransferStatus"
    THEN getTransferStatusMatches(call.options.expectedStatus)
    ELSE getTransferCreationMatches

RedactionsOf(call) ==
    IF call.kind = "proveTransferStatus"
    THEN getTransferStatusRedactions(call.options.additionalExtractions)
    ELSE getTransferCreationRedactions

\* A variant that signs the secret headers with the clock value the call read
\* on entry, as a signature kept from the authorize request would be.
AfterTokenStaleSignature(call, token, now) ==
    LET built == buildSecretHeaders(This, token, call.now)
        got == [call EXCEPT !.token = token,
                            !.stages = Append(call.stages, "AcquireToken")]
    IN  IF ~built.ok
        THEN [got EXCEPT !.pc = "rejected", !.error = "crypto error"]
        ELSE IF call.kind = "getSecretHeaders"
        THEN [got EXCEPT !.pc = "resolved",
                         !.secretHeaders = built.headers,
                         !.result = built.headers]
        ELSE LET secretOpts == buildSecretOptions(built.headers, MatchesOf(call),
                                                  RedactionsOf(call))
             IN  [got EXCEPT
                    !.pc = "engine",
                    !.secretHeaders = built.headers,
                    !.secretOpts = secretOpts,
                    !.engineCalls = call.engineCalls + 1,
                    !.engineArgs = [url |-> call.url,
                                    publicOptions |-> call.publicOptions,
                                    secretOptions |-> secretOpts,
                                    retries |-> call.options.retries,
                                    retryInterval |-> call.options.retryInterval],
                    !.stages = got.stages \o <<"BuildDescriptors", "Generate">>]

\* A variant that goes on to the proof engine when building the headers failed.
AfterTokenUnchecked(call, token, now) ==
    LET built == buildSecretHeaders(This, token, now)
        got == [call EXCEPT !.token = token,
                            !.stages = Append(call.stages, "AcquireToken")]
    IN  IF call.kind = "getSecretHeaders"
        THEN [got EXCEPT !.pc = "resolved",
                         !.secretHeaders = built.headers,
                         !.result = built.headers]
        ELSE LET secretOpts == buildSecretOptions(built.headers, MatchesOf(call),
                                                  RedactionsOf(call))
             IN  [got EXCEPT
                    !.pc = "engine",
                    !.secretHeaders = built.headers,
                    !.secretOpts = secretOpts,
                    !.engineCalls = call.engineCalls + 1,
                    !.engineArgs = [url |-> call.url,
                                    publicOptions |-> call.publicOptions,
                                    secretOptions |-> secretOpts,
                                    retries |-> call.options.retries,
                                    retryInterval |-> call.options.retryInterval],
                    !.stages = got.stages \o <<"BuildDescriptors", "Generate">>]

\* A variant whose client keeps the header map it built and hands the same
\* object out again: what a caller wrote into the map it kept is in it.
AfterTokenLiveMap(call, token, now) ==
    LET built == buildSecretHeaders(This, token, now)
        live == IF held # NoHeaders THEN held ELSE built.headers
        got == [call EXCEPT !.token = token,
                            !.stages = Append(call.stages, "AcquireToken")]
    IN  IF ~built.ok
        THEN [got EXCEPT !.pc = "rejected", !.error = "crypto error"]
        ELSE IF call.kind = "getSecretHeaders"
        THEN [got EXCEPT !.pc = "resolved",
                         !.secretHeaders = live,
                         !.result = live]
        ELSE LET secretOpts == buildSecretOptions(live, MatchesOf(call),
                                                  RedactionsOf(call))
             IN  [got EXCEPT
                    !.pc = "engine",
                    !.secretHeaders = live,
                    !.secretOpts = secretOpts,
                    !.engineCalls = call.engineCalls + 1,
                    !.engineArgs = [url |-> call.url,
                                    publicOptions |-> call.publicOptions,
                                    secretOptions |-> secretOpts,
                                    retries |-> call.options.retries,
                                    retryInterval |-> call.options.retryInterval],
                    !.stages = got.stages \o <<"BuildDescriptors", "Generate">>]

\* A call from the moment ensureBearerToken returned token: the secret headers
\* are built (the signature reads the clock again), then getSecretHeaders
\* returns them, and a proof call builds the secret options and invokes zkFetch.
AfterToken(call, token, now) ==
    LET built == buildSecretHeaders(This, token, now)
        got == [call EXCEPT !.token = token,
                            !.stages = Append(call.stages, "AcquireToken")]
    IN  IF ~built.ok
        THEN [got EXCEPT !.pc = "rejected", !.error = "crypto error"]
        ELSE IF call.kind = "getSecretHeaders"
        THEN [got EXCEPT !.pc = "resolved",
                         !.secretHeaders = built.headers,
                         !.result = built.headers]
        ELSE LET secretOpts == buildSecretOptions(built.headers, MatchesOf(call),
                                                  RedactionsOf(call))
             IN  [got EXCEPT
                    !.pc = "engine",
                    !.secretHeaders = built.headers,
                    !.secretOpts = secretOpts,
                    !.engineCalls = call.engineCalls + 1,
                    !.engineArgs = [url |-> call.url,
                                    publicOptions |-> call.publicOptions,
                                    secretOptions |-> secretOpts,
                                    retries |-> call.options.retries,
                                    retryInterval |-> call.options.retryInterval],
                    !.stages = got.stages \o <<"BuildDescriptors", "Generate">>]

\* A variant with a single-flight guard: a call that finds an authorize request
\* of another call in flight waits for it and sends none of its own.
BeginAuthorizeSingleFlight(call, now) ==
    LET req == AuthorizeRequest(self.clientId, self.clientSecret,
                                self.rsaPublicKey, now)
    IN  IF ~req.ok
        THEN [call EXCEPT !.pc = "rejected", !.error = "crypto error"]
        ELSE IF \E d \in Calls : calls[d].pc = "authorizing"
        THEN [call EXCEPT !.pc = "authorizing"]
        ELSE [call EXCEPT
                !.pc = "authorizing",
                !.authSent = call.authSent + 1,
                !.authRequest =
                    [url |-> CASHFREE_AUTH_DOMAINS[self.environment]
                             \o CASHFREE_ENDPOINTS.authorize,
                     method |-> "POST",
                     headers |-> req.headers]]

\* A call that found no fresh token: cashfreeAuthorize signs and sends the
\* request, or rejects when signing throws.
BeginAuthorize(call, now) ==
    LET req == AuthorizeRequest(self.clientId, self.clientSecret,
                                self.rsaPublicKey, now)
    IN  IF ~req.ok
        THEN [call EXCEPT !.pc = "rejected", !.error = "crypto error"]
        ELSE [call EXCEPT
                !.pc = "authorizing",
                !.authSent = call.authSent + 1,
                !.authRequest =
                    [url |-> CASHFREE_AUTH_DOMAINS[self.environment]
                             \o CASHFREE_ENDPOINTS.authorize,
                     method |-> "POST",
                     headers |-> req.headers]]

\* A settled call: its promise is resolved or rejected and the caller's
\* continuation has not run yet.
Settled(call) == call.pc \in {"resolved", "rejected"}

\* The continuation of a settled promise runs before the event loop takes the
\* next event, so no other step happens while a call is settled.
NoneSettled == \A c \in Calls : ~Settled(calls[c])

\* getSecretHeaders / proveTransferStatus / proveTransferCreation up to the
\* first await that suspends on I/O.
Start(c, kind, options) ==
    /\ NoneSettled
    /\ calls[c].pc = "idle"
    /\ \A d \in Calls : d < c => calls[d].pc # "idle"
    /\ LET call == [CallHead(kind, options) EXCEPT
                        !.now = clock,
                        !.seenToken = cachedBearerToken,
                        !.seenExpiry = bearerTokenExpiry,
                        !.seenTrueExpiry = trueExpiry]
           next == IF CacheFresh(cachedBearerToken, bearerTokenExpiry, clock)
                   THEN AfterToken([call EXCEPT !.source = "cache"],
                                   cachedBearerToken, clock)
                   ELSE BeginAuthorize([call EXCEPT !.source = "authorize"], clock)
       IN  calls' = [calls EXCEPT ![c] = next]
    /\ UNCHANGED <<config, self, cachedBearerToken, bearerTokenExpiry, clock, trueExpiry, held, rules>>

\* A variant that computes the expiry from the clock at the moment the
\* response arrives.
StoreOnSettleAtArrival(settled, call) ==
    IF settled.ok
    THEN [cachedBearerToken |-> settled.token,
          bearerTokenExpiry |-> RefreshedExpiry(clock)]
    ELSE [cachedBearerToken |-> cachedBearerToken,
          bearerTokenExpiry |-> bearerTokenExpiry]

\* A variant that stores the token and leaves the expiry as it was.
StoreOnSettleTokenOnly(settled, call) ==
    IF settled.ok
    THEN [cachedBearerToken |-> settled.token,
          bearerTokenExpiry |-> bearerTokenExpiry]
    ELSE [cachedBearerToken |-> cachedBearerToken,
          bearerTokenExpiry |-> bearerTokenExpiry]

\* A variant that, when the authorize call fails, keeps the stored token and
\* gives it a new expiry.
StoreOnSettleExtending(settled, call) ==
    IF settled.ok
    THEN [cachedBearerToken |-> settled.token,
          bearerTokenExpiry |-> RefreshedExpiry(call.now)]
    ELSE [cachedBearerToken |-> cachedBearerToken,
          bearerTokenExpiry |-> IF TruthyStr(cachedBearerToken)
                                THEN RefreshedExpiry(call.now)
                                ELSE bearerTokenExpiry]

\* A variant that drops the stored token when the authorize call fails.
StoreOnSettleClearing(settled, call) ==
    IF settled.ok
    THEN [cachedBearerToken |-> settled.token,
          bearerTokenExpiry |-> RefreshedExpiry(call.now)]
    ELSE [cachedBearerToken |-> Undefined,
          bearerTokenExpiry |-> NoExpiry]

\* The cache fields as ensureBearerToken leaves them once its authorize call has
\* settled: written only after the await returned a token.
StoreOnSettle(settled, call) ==
    IF settled.ok
    THEN [cachedBearerToken |-> settled.token,
          bearerTokenExpiry |-> RefreshedExpiry(call.now)]
    ELSE [cachedBearerToken |-> cachedBearerToken,
          bearerTokenExpiry |-> bearerTokenExpiry]

\* The authorize request of call c ends; on success ensureBearerToken stores the
\* token with the expiry computed from the clock value it read on entry, and
\* the call goes on; on a failure the promise rejects and so does the call; when
\* the response stream is aborted no listener runs, the promise stays pending
\* and the call waits on it for ever.
AuthorizeRespond(c, resp, issuedAt) ==
    /\ NoneSettled
    /\ calls[c].pc = "authorizing"
    /\ IF resp = StreamAborted
       THEN /\ calls' = [calls EXCEPT ![c] =
                   [calls[c] EXCEPT !.pc = "hung", !.authResponse = resp]]
            /\ UNCHANGED <<cachedBearerToken, bearerTokenExpiry, trueExpiry>>
       ELSE LET settled == AuthorizeSettle(resp)
                stored == StoreOnSettle(settled, calls[c])
            IN  /\ cachedBearerToken' = stored.cachedBearerToken
                /\ bearerTokenExpiry' = stored.bearerTokenExpiry
                /\ trueExpiry' = IF settled.ok THEN issuedAt + TokenLifetime
                                  ELSE trueExpiry
                /\ calls' = [calls EXCEPT ![c] =
                       IF settled.ok
                       THEN AfterToken([calls[c] EXCEPT !.granted = settled.token,
                                                        !.authResponse = resp],
                                       settled.token, clock)
                       ELSE [calls[c] EXCEPT !.pc = "rejected",
                                             !.authResponse = resp,
                                             !.error = settled.error]]
    /\ UNCHANGED <<config, self, clock, held, rules>>

\* A variant whose error for a missing proof quotes the Authorization header.
AfterEngineNamingToken(call, ret) ==
    IF ret.type = "throw"
    THEN [call EXCEPT !.pc = "rejected", !.error = "engine error",
                      !.engineReturn = ret]
    ELSE IF ret.type = "null"
    THEN [call EXCEPT
            !.pc = "rejected",
            !.engineReturn = ret,
            !.error = "Failed to generate proof with "
                          \o call.secretHeaders["Authorization"]]
    ELSE [call EXCEPT
            !.pc = "resolved",
            !.engineReturn = ret,
            !.stages = Append(call.stages, "ParseResult"),
            !.result = IF call.kind = "proveTransferStatus"
                       THEN ParseStatusResult(ret.proof, call.options)
                       ELSE ParseCreationResult(ret.proof, call.options)]

\* A variant that, handed no proof, builds the secret headers anew and asks
\* the proof engine a second time.
AfterEngineResigning(call, ret) ==
    IF ret.type = "throw"
    THEN [call EXCEPT !.pc = "rejected", !.error = "engine error",
                      !.engineReturn = ret]
    ELSE IF ret.type = "null" /\ call.engineCalls < 2
    THEN LET built == buildSecretHeaders(This, call.token, clock)
         IN  [call EXCEPT
                !.secretHeaders = built.headers,
                !.engineArgs = [call.engineArgs EXCEPT
                                   !.secretOptions.headers = built.headers],
                !.engineCalls = call.engineCalls + 1]
    ELSE IF ret.type = "null"
    THEN [call EXCEPT
            !.pc = "rejected",
            !.engineReturn = ret,
            !.error = "Failed to generate proof"]
    ELSE [call EXCEPT
            !.pc = "resolved",
            !.engineReturn = ret,
            !.stages = Append(call.stages, "ParseResult"),
            !.result = IF call.kind = "proveTransferStatus"
                       THEN ParseStatusResult(ret.proof, call.options)
                       ELSE ParseCreationResult(ret.proof, call.options)]

\* A variant that asks the proof engine once more when it handed back no proof.
AfterEngineRetrying(call, ret) ==
    IF ret.type = "throw"
    THEN [call EXCEPT !.pc = "rejected", !.error = "engine error",
                      !.engineReturn = ret]
    ELSE IF ret.type = "null" /\ call.engineCalls < 2
    THEN [call EXCEPT !.engineCalls = call.engineCalls + 1]
    ELSE IF ret.type = "null"
    THEN [call EXCEPT
            !.pc = "rejected",
            !.engineReturn = ret,
            !.error = "Failed to generate proof"]
    ELSE [call EXCEPT
            !.pc = "resolved",
            !.engineReturn = ret,
            !.stages = Append(call.stages, "ParseResult"),
            !.result = IF call.kind = "proveTransferStatus"
                       THEN ParseStatusResult(ret.proof, call.options)
                       ELSE ParseCreationResult(ret.proof, call.options)]

\* A variant that answers with an empty result when there is no proof.
AfterEngineSilent(call, ret) ==
    IF ret.type = "throw"
    THEN [call EXCEPT !.pc = "rejected", !.error = "engine error",
                      !.engineReturn = ret]
    ELSE [call EXCEPT
            !.pc = "resolved",
            !.engineReturn = ret,
            !.stages = Append(call.stages, "ParseResult"),
            !.result = IF call.kind = "proveTransferStatus"
                       THEN ParseStatusResult(ret.proof, call.options)
                       ELSE ParseCreationResult(ret.proof, call.options)]

\* A proof call from the moment zkFetch handed back ret: a thrown error
\* propagates, no proof is an error, a proof is parsed into the result.
AfterEngine(call, ret) ==
    IF ret.type = "throw"
    THEN [call EXCEPT !.pc = "rejected", !.error = "engine error",
                      !.engineReturn = ret]
    ELSE IF ret.type = "null"
    THEN [call EXCEPT
            !.pc = "rejected",
            !.engineReturn = ret,
            !.error = IF call.kind = "proveTransferStatus"
                      THEN "Failed to generate proof for transfer status"
                      ELSE "Failed to generate proof for transfer creation"]
    ELSE [call EXCEPT
            !.pc = "resolved",
            !.engineReturn = ret,
            !.stages = Append(call.stages, "ParseResult"),
            !.result = IF call.kind = "proveTransferStatus"
                       THEN ParseStatusResult(ret.proof, call.options)
                       ELSE ParseCreationResult(ret.proof, call.options)]

\* zkFetch returns to call c.
EngineReturn(c, ret) ==
    /\ NoneSettled
    /\ calls[c].pc = "engine"
    /\ calls' = [calls EXCEPT ![c] = AfterEngine(calls[c], ret)]
    /\ UNCHANGED <<config, self, cachedBearerToken, bearerTokenExpiry, clock, trueExpiry, held, rules>>

\* The wall clock advances.
Tick(limit) ==
    /\ NoneSettled
    /\ clock + TickStep <= limit
    /\ clock' = clock + TickStep
    /\ UNCHANGED <<config, self, cachedBearerToken, bearerTokenExpiry, calls, trueExpiry, held, rules>>

\* The caller's continuation takes the result (or the error) of settled call c.
Return(c) ==
    /\ Settled(calls[c])
    /\ calls' = [calls EXCEPT ![c] = IdleCall]
    /\ UNCHANGED <<config, self, cachedBearerToken, bearerTokenExpiry, clock, trueExpiry, held, rules>>

\* The caller's continuation keeps the map getSecretHeaders returned to it.
Keep(c) ==
    /\ calls[c].pc = "resolved"
    /\ calls[c].kind = "getSecretHeaders"
    /\ held' = calls[c].result
    /\ calls' = [calls EXCEPT ![c] = IdleCall]
    /\ UNCHANGED <<config, self, cachedBearerToken, bearerTokenExpiry, clock, trueExpiry,
                   rules>>

\* What a caller writes into a header map of its own.
Mutated == "mutated"

\* The caller assigns to an entry of the map it kept: headers[h] = 'mutated'.
Mutate ==
    /\ NoneSettled
    /\ held # NoHeaders
    /\ \E h \in DOMAIN held :
            /\ held[h] # Mutated
            /\ held' = [held EXCEPT ![h] = Mutated]
    /\ UNCHANGED <<config, self, cachedBearerToken, bearerTokenExpiry, clock, calls,
                   trueExpiry, rules>>

\* A variant that puts the defaults in front of the caller's rules in the
\* caller's own array and returns that array.
StatusRedactionsCallInPlace(shared, additionalExtractions) ==
    LET defaults == <<shared.transferId, shared.cfTransferId,
                      shared.status, shared.transferAmount>>
    IN  IF Len(additionalExtractions) > 0
        THEN [result |-> defaults \o additionalExtractions,
              shared |-> shared,
              additionalExtractions |-> defaults \o additionalExtractions]
        ELSE [result |-> defaults,
              shared |-> shared,
              additionalExtractions |-> additionalExtractions]

\* One call of getTransferStatusRedactions with the module's constants as they
\* are: the list it returns, and the constants and the caller's array as the
\* call leaves them. The defaults go into a new array and the caller's rules
\* are spread into another; nothing is assigned to.
StatusRedactionsCall(shared, additionalExtractions) ==
    LET defaults == <<shared.transferId, shared.cfTransferId,
                      shared.status, shared.transferAmount>>
    IN  [result |-> IF Len(additionalExtractions) > 0
                    THEN defaults \o additionalExtractions
                    ELSE defaults,
         shared |-> shared,
         additionalExtractions |-> additionalExtractions]

\* The most calls of the rule builders in one behaviour.
MaxRuleCalls == 3

\* The arrays of extra rules a caller passes.
ExtraArrays ==
    {<<[jsonPath |-> "$.x"]>>, <<[jsonPath |-> "$.status"], [regex |-> "y"]>>}

\* The expected statuses a caller passes; undefined when it passes none.
StatusArgs == {Undefined, "SUCCESS", "FAILED"}

\* The caller puts extra rules into the array it holds.
CallerSetsInput(extra) ==
    /\ rules.input # extra
    /\ rules' = [rules EXCEPT !.input = extra]
    /\ UNCHANGED <<config, self, cachedBearerToken, bearerTokenExpiry, clock, calls,
                   trueExpiry, held>>

\* The caller adds a rule of its own to the list of redactions it was returned.
CallerPushes ==
    /\ Len(rules.redactions) \in 1 .. 6
    /\ rules.redactions[Len(rules.redactions)] # [jsonPath |-> "$.pushed"]
    /\ rules' = [rules EXCEPT !.redactions = Append(@, [jsonPath |-> "$.pushed"])]
    /\ UNCHANGED <<config, self, cachedBearerToken, bearerTokenExpiry, clock, calls,
                   trueExpiry, held>>

\* getTransferStatusRedactions(), or getTransferStatusRedactions(input) with
\* the array the caller holds.
CallRedactions(withInput) ==
    /\ Len(rules.log) < MaxRuleCalls
    /\ LET out == StatusRedactionsCall(rules.shared,
                                       IF withInput THEN rules.input ELSE <<>>)
       IN  rules' = [rules EXCEPT
                        !.shared = out.shared,
                        !.input = IF withInput THEN out.additionalExtractions ELSE @,
                        !.redactions = out.result,
                        !.log = Append(@, [fn |-> "getTransferStatusRedactions",
                                           extra |-> IF withInput THEN rules.input
                                                     ELSE <<>>,
                                           status |-> Undefined])]
    /\ UNCHANGED <<config, self, cachedBearerToken, bearerTokenExpiry, clock, calls,
                   trueExpiry, held>>

\* getTransferStatusMatches(expectedStatus).
CallMatches(expectedStatus) ==
    /\ Len(rules.log) < MaxRuleCalls
    /\ rules' = [rules EXCEPT
                    !.matches = getTransferStatusMatches(expectedStatus),
                    !.log = Append(@, [fn |-> "getTransferStatusMatches",
                                       extra |-> <<>>,
                                       status |-> expectedStatus])]
    /\ UNCHANGED <<config, self, cachedBearerToken, bearerTokenExpiry, clock, calls,
                   trueExpiry, held>>

AllIdle == \A c \in Calls : calls[c].pc = "idle"

\* Some event of the program: the clock (up to limit), a caller, the
\* authorization server or the proof engine. The calls' options are drawn from
\* OptionsOf when wide holds and from OverlapOptionsOf otherwise, the server's
\* answers from authResponses, the engine's from engineReturns; calls overlap
\* only when overlap holds. The server issued the token it answers with at some
\* moment between the request and the response: both ends when wide holds.
NextWith(wide, authResponses, engineReturns, limit, overlap) ==
    \/ Tick(limit)
    \/ \E c \in Calls : Return(c)
    \/ \E c \in Calls, kind \in Kinds : \E options \in (IF wide THEN OptionsOf(kind) ELSE OverlapOptionsOf(kind)) :
            /\ overlap \/ AllIdle
            /\ Start(c, kind, options)
    \/ \E c \in Calls, resp \in authResponses :
            \E issuedAt \in (IF wide THEN {calls[c].now, clock} ELSE {clock}) :
                AuthorizeRespond(c, resp, issuedAt)
    \/ \E c \in Calls, ret \in engineReturns : EngineReturn(c, ret)

\* Any number of overlapping calls on one client (at most MaxCalls in flight).
Init == InitWith(OverlapConfigs, {0})

Next == NextWith(FALSE, AuthResponses, OverlapEngineReturns, MaxTime, TRUE)

Spec == Init /\ [][Next]_vars

\* Calls made one after the other, over every config and option value.
InitSeq == InitWith(Configs, PreAges)

NextSeq == NextWith(TRUE, AuthEndings, EngineReturns, SeqMaxTime, FALSE)

SpecSeq == InitSeq /\ [][NextSeq]_vars

\* The same, with every event that can happen happening eventually: the
\* authorization request ends in one of its ways, the proof engine returns or
\* throws, the caller takes the outcome of a settled call.
SpecSeqFair == SpecSeq /\ WF_vars(NextSeq)

\* Calls made one after the other on a client built without a token, against an
\* authorization server that always answers SUCCESS with the token T1.
AlwaysT1 ==
    {r \in AuthResponses : r.event = "end" /\ r.body.status = "SUCCESS"
                                 /\ r.body.token = "T1"}

InitAlways ==
    InitWith({cfg \in Configs : /\ cfg.bearerToken = Undefined
                                 /\ cfg.rsaPublicKey # InvalidPem}, {0})

NextAlways == NextWith(TRUE, AlwaysT1, EngineReturns, SeqMaxTime, FALSE)

SpecAlways == InitAlways /\ [][NextAlways]_vars

\* Calls made one after the other by a caller that keeps the header maps
\* getSecretHeaders returns and writes into them.
InitHeld == InitWith(OverlapConfigs, {0})

NextHeld ==
    \/ NextWith(FALSE, AuthResponses, OverlapEngineReturns, SeqMaxTime, FALSE)
    \/ \E c \in Calls : Keep(c)
    \/ Mutate

SpecHeld == InitHeld /\ [][NextHeld]_vars

\* Calls made one after the other on a client of either environment, named or
\* left out.
EnvConfigs ==
    [clientId     : {"CF_CLIENT"},
     clientSecret : {"cfsk_secret"},
     rsaPublicKey : {Undefined, ValidPem},
     bearerToken  : {Undefined, "B"},
     apiVersion   : {Undefined},
     environment  : {Undefined, "sandbox", "production"},
     useTee       : {FALSE},
     geoLocation  : {Undefined}]

InitEnv == InitWith(EnvConfigs, {0})

NextEnv == NextWith(FALSE, AuthResponses, OverlapEngineReturns, SeqMaxTime, FALSE)

SpecEnv == InitEnv /\ [][NextEnv]_vars

\* Calls of the two rule builders of a status check, in any order, by a caller
\* that keeps an array of extra rules and the lists it is returned.
InitRules ==
    InitWith({cfg \in Configs : /\ cfg.bearerToken = Undefined
                                /\ cfg.rsaPublicKey = Undefined
                                /\ cfg.environment = "sandbox"}, {0})

NextRules ==
    \/ \E extra \in ExtraArrays \cup {<<>>} : CallerSetsInput(extra)
    \/ CallerPushes
    \/ \E withInput \in BOOLEAN : CallRedactions(withInput)
    \/ \E expectedStatus \in StatusArgs : CallMatches(expectedStatus)

SpecRules == InitRules /\ [][NextRules]_vars

\* ------------------------------------------------------------ properties
\* The call has got its token from ensureBearerToken.
TokenResolved(call) == call.token # Undefined

\* The call has built its secret headers.
HeadersBuilt(call) == call.secretHeaders # NoHeaders

\* C1: on a client built without a token, with calls made one after the other
\* and a server that always answers SUCCESS with T1: a resolution that finds no
\* stored token sends one authorize request; one started while now < the stored
\* expiry sends none and returns the stored token; one started at now >= the
\* stored expiry sends exactly one; each yields Authorization = "Bearer T1".
C1_SequentialReuse ==
    \A c \in Calls :
        LET call == calls[c]
        IN  /\ call.pc = "authorizing" =>
                /\ call.authSent = 1
                /\ call.seenToken = Undefined \/ call.now >= call.seenExpiry
            /\ TokenResolved(call) =>
                /\ HeadersBuilt(call)
                /\ call.secretHeaders["Authorization"] = "Bearer T1"
                /\ call.seenToken = Undefined => call.authSent = 1
                /\ (call.seenToken # Undefined /\ call.now < call.seenExpiry) =>
                        call.authSent = 0 /\ call.token = call.seenToken
                /\ (call.seenToken # Undefined /\ call.now >= call.seenExpiry) =>
                        call.authSent = 1

\* A resolution started exactly at the stored expiry of T1 that authorized again.
C1_Witness ==
    \E c \in Calls :
        /\ TokenResolved(calls[c])
        /\ calls[c].seenToken = "T1"
        /\ calls[c].now = calls[c].seenExpiry
        /\ calls[c].authSent = 1
        /\ calls[c].secretHeaders["Authorization"] = "Bearer T1"

\* C2: under every interleaving of overlapping calls, a token returned by
\* ensureBearerToken is either the stored token, checked with now < expiry by
\* that call, or the token that call's own authorize request returned.
C2_NoStaleToken ==
    \A c \in Calls :
        LET call == calls[c]
        IN  TokenResolved(call) =>
                \/ /\ call.authSent = 0
                   /\ call.token = call.seenToken
                   /\ call.seenExpiry # NoExpiry
                   /\ call.now < call.seenExpiry
                \/ /\ call.authSent = 1
                   /\ call.granted # Undefined
                   /\ call.token = call.granted

\* Two overlapping calls, one of which found the stored token exactly at its
\* expiry and authorized again.
C2_Witness ==
    \E c, d \in Calls :
        /\ c # d
        /\ calls[d].pc \in {"authorizing", "engine"}
        /\ TokenResolved(calls[c])
        /\ calls[c].seenToken # Undefined
        /\ calls[c].now = calls[c].seenExpiry
        /\ calls[c].authSent = 1

\* C3: the stored expiry leaves a margin below the true server-side expiry of
\* the stored token, whether the token came from authorize or was handed to the
\* constructor at an unknown age, so that no call is served a token from the
\* cache at or after the moment the token truly expired.
C3_NeverServedExpired ==
    \A c \in Calls :
        (TokenResolved(calls[c]) /\ calls[c].authSent = 0) =>
            calls[c].now < calls[c].seenTrueExpiry

C5_FailedAuthorizeCommitsNothing ==
    [][\A c \in Calls :
          /\ (calls[c].pc = "authorizing" /\ calls'[c] # calls[c]) =>
                \/ /\ calls'[c].pc = "rejected"
                   /\ ~TokenResolved(calls'[c])
                   /\ calls'[c].authSent = calls[c].authSent
                   /\ calls'[c].engineCalls = 0
                   /\ cachedBearerToken' = cachedBearerToken
                   /\ bearerTokenExpiry' = bearerTokenExpiry
                \/ /\ TokenResolved(calls'[c])
                   /\ calls'[c].token = calls'[c].granted
                   /\ cachedBearerToken' = calls'[c].granted
          /\ (calls[c].pc = "idle" /\ calls'[c].pc = "rejected"
                /\ ~TokenResolved(calls'[c])) =>
                /\ calls'[c].authSent = 0
                /\ calls'[c].engineCalls = 0
                /\ cachedBearerToken' = cachedBearerToken
                /\ bearerTokenExpiry' = bearerTokenExpiry]_vars

\* A call whose authorize request failed while a token was stored: the stored
\* token and its expiry are still there.
C5_Witness ==
    \E c \in Calls :
        /\ calls[c].pc = "rejected"
        /\ calls[c].authSent = 1
        /\ ~TokenResolved(calls[c])
        /\ calls[c].seenToken # Undefined
        /\ cachedBearerToken = calls[c].seenToken
        /\ bearerTokenExpiry = calls[c].seenExpiry

ProofKinds == {"proveTransferStatus", "proveTransferCreation"}

StageOrder == <<"AcquireToken", "BuildDescriptors", "Generate", "ParseResult">>

IsPrefix(a, b) == Len(a) <= Len(b) /\ a = SubSeq(b, 1, Len(a))

\* C6: a proof call goes through AcquireToken, BuildDescriptors, Generate and
\* ParseResult in this order: the proof engine is invoked only with the token
\* resolved and the secret headers built from it, a call that failed before is
\* rejected without the engine having been invoked, and the result is parsed
\* only from a proof the engine handed back.
C6_StageOrder ==
    \A c \in Calls :
        LET call == calls[c]
        IN  call.kind \in ProofKinds =>
                /\ IsPrefix(call.stages, StageOrder)
                /\ call.engineCalls > 0 =>
                      /\ TokenResolved(call)
                      /\ HeadersBuilt(call)
                      /\ call.secretHeaders["Authorization"] = "Bearer " \o call.token
                      /\ call.engineArgs.secretOptions.headers = call.secretHeaders
                      /\ Len(call.stages) >= 3
                /\ (call.pc = "rejected" /\ call.engineReturn = Absent) =>
                      /\ call.engineCalls = 0
                      /\ Len(call.stages) <= 1
                /\ Len(call.stages) = 4 =>
                      /\ call.engineReturn # Absent
                      /\ call.engineReturn.type = "proof"

\* A creation call that went through all four stages after authorizing.
C6_Witness ==
    \E c \in Calls :
        /\ calls[c].kind = "proveTransferCreation"
        /\ calls[c].authSent = 1
        /\ calls[c].stages = StageOrder
        /\ calls[c].pc = "resolved"

\* C7: a proveTransferCreation call invokes the proof engine at most once,
\* whether the engine hands back a proof, no proof or throws: once the engine
\* has returned the call is settled and is not waiting for the engine again.
C7_CreationEngineOnce ==
    \A c \in Calls :
        LET call == calls[c]
        IN  call.kind = "proveTransferCreation" =>
                /\ call.engineCalls <= 1
                /\ call.pc = "engine" =>
                      call.engineCalls = 1 /\ call.engineReturn = Absent
                /\ call.engineReturn # Absent =>
                      Settled(call) /\ call.engineCalls = 1

\* A creation call rejected after the engine handed back no proof, with the
\* engine invoked once.
C7_Witness ==
    \E c \in Calls :
        /\ calls[c].kind = "proveTransferCreation"
        /\ calls[c].pc = "rejected"
        /\ calls[c].engineReturn # Absent
        /\ calls[c].engineReturn.type = "null"
        /\ calls[c].engineCalls = 1

\* C8: when the proof engine hands back no proof the proof call rejects with an
\* error and returns no result, and every result returned carries the proof
\* the engine handed back.
C8_NoProofNoResult ==
    \A c \in Calls :
        LET call == calls[c]
        IN  call.kind \in ProofKinds =>
                /\ (call.engineReturn # Absent /\ call.engineReturn.type = "null") =>
                      /\ call.pc = "rejected"
                      /\ call.result = Absent
                      /\ call.error # Undefined
                /\ call.pc = "resolved" =>
                      /\ call.engineReturn # Absent
                      /\ call.engineReturn.type = "proof"
                      /\ call.result.proof = call.engineReturn.proof
                /\ call.result # Absent => call.pc = "resolved"

\* A status call asserting FAILED, rejected because the engine gave no proof.
C8_Witness ==
    \E c \in Calls :
        /\ calls[c].kind = "proveTransferStatus"
        /\ calls[c].options.expectedStatus = "FAILED"
        /\ calls[c].engineReturn # Absent
        /\ calls[c].engineReturn.type = "null"
        /\ calls[c].pc = "rejected"
        /\ calls[c].error = "Failed to generate proof for transfer status"

AuthHeaderNames == {"Authorization", "x-client-id", "x-client-secret", "X-Cf-Signature"}

\* C9: the secret headers built for any request contain all four
\* authentication headers, for every config the constructor accepts.
C9_AllFourHeaders ==
    \A c \in Calls :
        HeadersBuilt(calls[c]) => AuthHeaderNames \subseteq DOMAIN calls[c].secretHeaders

Range(f) == {f[x] : x \in DOMAIN f}

\* The secret strings a call handles.
SecretStrings(call) ==
    ({self.clientId, self.clientSecret, self.rsaPublicKey, cachedBearerToken,
      call.token, call.seenToken, call.granted}
     \cup Range(call.secretHeaders)) \ {Undefined}

\* Clients that differ from this one in their secrets and token cache only.
SecretVariants(this) ==
    {[this EXCEPT !.clientId = id, !.clientSecret = secret, !.rsaPublicKey = key,
                  !.cachedBearerToken = token, !.bearerTokenExpiry = expiry] :
        id \in {this.clientId, "OTHER_CLIENT"},
        secret \in {this.clientSecret, "other_secret"},
        key \in {Undefined, ValidPem, InvalidPem},
        token \in {Undefined, "B"} \cup ServerTokens,
        expiry \in {NoExpiry, StartTime + CacheWindow}}

\* C10: the public options of a request have exactly the headers Content-Type
\* and x-api-version, none of their values is the token, the client secret,
\* the client id or the signature, and a client that differs only in those
\* secrets or in its token cache builds the same public options from the same
\* method, body and context.
C10_PublicOptionsHoldNoSecret ==
    \A c \in Calls :
        LET call == calls[c]
            po == call.publicOptions
        IN  po # Absent =>
                /\ DOMAIN po.headers = {"Content-Type", "x-api-version"}
                /\ po.headers["Content-Type"] = "application/json"
                /\ po.headers["x-api-version"] = self.apiVersion
                /\ \A v \in Range(po.headers)
                            \cup {po.method, po.body, po.geoLocation, po.context} :
                        v \notin SecretStrings(call)
                /\ \A other \in SecretVariants(This) :
                        buildPublicOptions(other, po.method, po.body, po.context) = po
                /\ call.engineCalls > 0 => call.engineArgs.publicOptions = po

\* A creation call handed to the engine with its token resolved and a JSON body
\* in its public options.
C10_Witness ==
    \E c \in Calls :
        /\ calls[c].kind = "proveTransferCreation"
        /\ calls[c].pc = "engine"
        /\ TokenResolved(calls[c])
        /\ calls[c].publicOptions.method = "POST"
        /\ calls[c].publicOptions.body # Undefined

PublicHeaderNames == {"Content-Type", "x-api-version"}

\* C11: the keys of the secret headers are always among Authorization,
\* x-client-id, x-client-secret and X-Cf-Signature, never Content-Type or
\* x-api-version, and share no key with the public headers of the same call.
C11_SecretKeysDisjoint ==
    \A c \in Calls :
        LET call == calls[c]
        IN  /\ DOMAIN call.secretHeaders \subseteq AuthHeaderNames
            /\ DOMAIN call.secretHeaders \cap PublicHeaderNames = {}
            /\ call.publicOptions # Absent =>
                   DOMAIN call.secretHeaders \cap DOMAIN call.publicOptions.headers = {}
            /\ call.engineCalls > 0 =>
                   DOMAIN call.engineArgs.secretOptions.headers
                       \cap DOMAIN call.engineArgs.publicOptions.headers = {}

\* A proof call of a client with an RSA key, handed to the engine with all four
\* secret headers beside its two public headers.
C11_Witness ==
    \E c \in Calls :
        /\ calls[c].kind = "proveTransferStatus"
        /\ calls[c].pc = "engine"
        /\ DOMAIN calls[c].secretHeaders = AuthHeaderNames
        /\ DOMAIN calls[c].publicOptions.headers = PublicHeaderNames

\* The value extracted for field in proof, Undefined when the proof has no
\* extracted values or none for field.
ExtractedField(proof, field) ==
    IF "extractedParameterValues" \in DOMAIN proof
       /\ field \in DOMAIN proof.extractedParameterValues
    THEN proof.extractedParameterValues[field]
    ELSE Undefined

\* C12: a resolved proveTransferStatus call returns the engine's proof, the
\* extracted transfer_id when present and non-empty and otherwise the caller's
\* transferId, the extracted status and cf_transfer_id ("" when absent) and the
\* extracted transfer_amount (undefined when absent); a proof without extracted
\* values counts as one with none.
C12_StatusResult ==
    \A c \in Calls :
        LET call == calls[c]
            proof == call.engineReturn.proof
        IN  (call.kind = "proveTransferStatus" /\ call.pc = "resolved") =>
                /\ call.result.proof = proof
                /\ call.result.transferId =
                       IF ExtractedField(proof, "transfer_id") \in {Undefined, ""}
                       THEN call.options.transferId
                       ELSE ExtractedField(proof, "transfer_id")
                /\ call.result.status =
                       IF ExtractedField(proof, "status") = Undefined THEN ""
                       ELSE ExtractedField(proof, "status")
                /\ call.result.cfTransferId =
                       IF ExtractedField(proof, "cf_transfer_id") = Undefined THEN ""
                       ELSE ExtractedField(proof, "cf_transfer_id")
                /\ call.result.transferAmount = ExtractedField(proof, "transfer_amount")

\* A status call resolved from a proof whose extracted transfer_id is empty and
\* whose transfer_amount is present: the caller's id and the amount come back.
C12_Witness ==
    \E c \in Calls :
        /\ calls[c].kind = "proveTransferStatus"
        /\ calls[c].pc = "resolved"
        /\ calls[c].engineReturn.proof.id = "p3"
        /\ calls[c].result.transferId = calls[c].options.transferId
        /\ calls[c].result.transferAmount = "100.5"
        /\ calls[c].result.cfTransferId = ""

\* C13: a resolved proveTransferCreation call whose proof carries no extracted
\* transfer_id returns the transfer_id of the submitted transfer request.
C13_CreationFallsBackToRequestId ==
    \A c \in Calls :
        LET call == calls[c]
        IN  (/\ call.kind = "proveTransferCreation"
             /\ call.pc = "resolved"
             /\ ExtractedField(call.engineReturn.proof, "transfer_id") = Undefined) =>
                call.result.transferId = call.options.transferRequest.transfer_id

\* A 'contains' rule is a literal string match: value occurs in body.
Contains(body, value) ==
    \E i \in 1 .. (Len(body) - Len(value) + 1) :
        SubSeq(body, i, i + Len(value) - 1) = value

\* Transfer-status responses: the top-level status of the transfer and,
\* possibly, a nested object that has a status field of its own; the transfer_id
\* field may be missing, and may have a space after its colon.
ResponseBodies ==
    [status : {"PENDING", "SUCCESS", "FAILED"}, nested : {Undefined, "FAILED"},
     withId : BOOLEAN, spaced : BOOLEAN]

\* The JSON text of a response.
BodyText(b) ==
    "{" \o (IF b.withId
            THEN "\"transfer_id\":" \o (IF b.spaced THEN " " ELSE "") \o "\"t1\","
            ELSE "")
        \o "\"cf_transfer_id\":\"cf1\",\"status\":\"" \o b.status
        \o "\",\"transfer_amount\":100.50"
        \o (IF b.nested = Undefined THEN ""
            ELSE ",\"beneficiary_details\":{\"status\":\"" \o b.nested \o "\"}")
        \o "}"

\* The character of s at position i, "" beyond its end.
CharAt(s, i) == IF i >= 1 /\ i <= Len(s) THEN SubSeq(s, i, i) ELSE ""

\* \s* from position i: the first position at or after i that holds no white space.
RECURSIVE SkipSpace(_, _)
SkipSpace(s, i) == IF CharAt(s, i) = " " THEN SkipSpace(s, i + 1) ELSE i

\* The pattern "field"\s*:\s*"(?<field>[^"]+)" matches body from position i.
StringFieldMatchesAt(body, field, i) ==
    LET key == "\"" \o field \o "\""
        colon == SkipSpace(body, i + Len(key))
        open == SkipSpace(body, colon + 1)
    IN  /\ i + Len(key) - 1 <= Len(body)
        /\ SubSeq(body, i, i + Len(key) - 1) = key
        /\ CharAt(body, colon) = ":"
        /\ CharAt(body, open) = "\""
        /\ CharAt(body, open + 1) \notin {"", "\""}
        /\ \E close \in (open + 2) .. Len(body) : CharAt(body, close) = "\""

\* The pattern "transfer_amount"\s*:\s*(?<transfer_amount>[\d.]+) matches body
\* from position i.
AmountMatchesAt(body, i) ==
    LET key == "\"transfer_amount\""
        colon == SkipSpace(body, i + Len(key))
        first == SkipSpace(body, colon + 1)
    IN  /\ i + Len(key) - 1 <= Len(body)
        /\ SubSeq(body, i, i + Len(key) - 1) = key
        /\ CharAt(body, colon) = ":"
        /\ CharAt(body, first) \in
               {"0", "1", "2", "3", "4", "5", "6", "7", "8", "9", "."}

\* The fields the quoted-string pattern is built for.
StringFields == {"transfer_id", "cf_transfer_id", "status", "status_code"}

\* A response-match rule is satisfied by body.
RuleSatisfied(rule, body) ==
    IF rule.type = "contains"
    THEN Contains(body, rule.value)
    ELSE \E i \in 1 .. Len(body) :
            \/ \E f \in StringFields :
                   rule.value = StringFieldRegex(f) /\ StringFieldMatchesAt(body, f, i)
            \/ rule.value = AmountRegex /\ AmountMatchesAt(body, i)

\* C14: the match rules handed to the engine for an expected status S are not
\* satisfied by any response whose top-level status differs from S: the first
\* rule, contains "status":"S", fails on every such body.
C14_ExpectedStatusEnforced ==
    \A c \in Calls :
        LET call == calls[c]
        IN  (/\ call.kind = "proveTransferStatus"
             /\ call.engineCalls > 0
             /\ TruthyStr(call.options.expectedStatus)) =>
                LET first == call.engineArgs.secretOptions.responseMatches[1]
                IN  /\ first.type = "contains"
                    /\ \A b \in ResponseBodies :
                           b.status # call.options.expectedStatus =>
                               ~Contains(BodyText(b), first.value)

\* The four extraction rules of a status check, in their order.
StatusExtractionRules ==
    <<[type |-> "regex", value |-> "\"transfer_id\"\\s*:\\s*\"(?<transfer_id>[^\"]+)\""],
      [type |-> "regex",
       value |-> "\"cf_transfer_id\"\\s*:\\s*\"(?<cf_transfer_id>[^\"]+)\""],
      [type |-> "regex", value |-> "\"status\"\\s*:\\s*\"(?<status>[^\"]+)\""],
      [type |-> "regex",
       value |-> "\"transfer_amount\"\\s*:\\s*(?<transfer_amount>[\\d.]+)"]>>

\* The match rules the engine was handed by call.
HandedMatches(call) == call.engineArgs.secretOptions.responseMatches

\* The rule is satisfied by no response that lacks the transfer_id field, and by
\* those that have it.
AssertsTransferId(rule) ==
    \A b \in ResponseBodies : RuleSatisfied(rule, BodyText(b)) <=> b.withId

HandedRedactions(call) == call.engineArgs.secretOptions.responseRedactions

\* C16: the redaction rules of a status check are the 4 default field rules
\* ($.transfer_id, $.cf_transfer_id, $.status, $.transfer_amount) in this order
\* followed by the caller's k rules in their order, 4 + k rules in all; the
\* redaction rules of a creation are exactly 4.
C16_RedactionsAppendOnly ==
    \A c \in Calls :
        LET call == calls[c]
            extra == call.options.additionalExtractions
        IN  call.engineCalls > 0 =>
                IF call.kind = "proveTransferStatus"
                THEN /\ Len(HandedRedactions(call)) = 4 + Len(extra)
                     /\ SubSeq(HandedRedactions(call), 1, 4) =
                            <<[jsonPath |-> "$.transfer_id"],
                              [jsonPath |-> "$.cf_transfer_id"],
                              [jsonPath |-> "$.status"],
                              [jsonPath |-> "$.transfer_amount"]>>
                     /\ \A i \in 1 .. Len(extra) :
                            HandedRedactions(call)[4 + i] = extra[i]
                ELSE Len(HandedRedactions(call)) = 4

\* A status call handed to the engine with two rules of the caller, one of them
\* on a default field, after the four defaults.
C16_Witness ==
    \E c \in Calls :
        /\ calls[c].kind = "proveTransferStatus"
        /\ calls[c].pc = "engine"
        /\ Len(calls[c].options.additionalExtractions) = 2
        /\ Len(HandedRedactions(calls[c])) = 6

\* The call has run its freshness check and found no fresh token in the cache.
SawNoFreshToken(call) ==
    /\ call.pc # "idle"
    /\ ~CacheFresh(call.seenToken, call.seenExpiry, call.now)

\* C17: there is no single-flight guard: every call whose freshness check finds
\* the cache absent or expired sends an authorize request of its own, whatever
\* requests of other calls are in flight, and the token it is handed is the one
\* its own request returned, never one from the cache.
C17_EachIssuesItsOwnAuthorize ==
    \A c \in Calls :
        LET call == calls[c]
        IN  SawNoFreshToken(call) =>
                /\ call.source = "authorize"
                /\ call.pc = "authorizing" =>
                       call.authSent = 1 /\ call.authRequest # Absent
                /\ call.authSent = 0 =>
                       call.pc = "rejected" /\ self.rsaPublicKey = InvalidPem
                /\ TokenResolved(call) =>
                       call.authSent = 1 /\ call.token = call.granted

\* Every call slot holds a call that found the cache empty and has its own
\* authorize request in flight, all at once.
C17_Witness ==
    \A c \in Calls :
        /\ calls[c].pc = "authorizing"
        /\ calls[c].seenToken = Undefined
        /\ calls[c].authSent = 1

\* getBaseUrl(): the resolved base URL; reads one field and calls nothing.
getBaseUrl == self.baseUrl

\* C18: an authorize request is sent only by a secret-header resolution whose
\* own freshness check found no stored token or now >= the stored expiry, and
\* by each such resolution once; a call served from the cache sends none, and
\* none is in flight while no call is (after the constructor, or around the
\* getters and builders, which send nothing).
C18_AuthorizeOnlyWhenNeeded ==
    /\ \A c \in Calls :
        LET call == calls[c]
        IN  /\ (call.authSent > 0 \/ call.authRequest # Absent) =>
                   /\ \/ ~TruthyStr(call.seenToken)
                      \/ ~TruthyNum(call.seenExpiry)
                      \/ call.now >= call.seenExpiry
                   /\ call.authSent = 1
                   /\ call.source = "authorize"
            /\ call.source = "cache" =>
                   call.authSent = 0 /\ call.authRequest = Absent
    /\ AllIdle => /\ \A c \in Calls : calls[c].authSent = 0
                  /\ getBaseUrl = CASHFREE_DOMAINS[self.environment]

\* A call that found the pre-obtained token expired and sent its one request.
C18_Witness ==
    \E c \in Calls :
        /\ calls[c].authSent = 1
        /\ calls[c].seenToken = "B"
        /\ calls[c].now >= calls[c].seenExpiry
        /\ calls[c].pc = "authorizing"

\* The signature of clientId at clock value t: the encryption of "clientId.t".
SignatureAt(clientId, t) == "rsa-oaep(" \o clientId \o "." \o ToString(t) \o ")"

\* C19: with an RSA key, every authorize request and every set of secret
\* headers carries a signature computed from the clock value read at the step
\* that builds it; the secret headers of a call are signed at the step in which
\* its token resolution completes, never before it.
C19_SignatureFresh ==
    [][\A c \in Calls :
          /\ (calls[c].authRequest = Absent /\ calls'[c].authRequest # Absent
              /\ TruthyStr(self.rsaPublicKey)) =>
                 calls'[c].authRequest.headers["X-Cf-Signature"] =
                     SignatureAt(self.clientId, clock)
          /\ (~HeadersBuilt(calls[c]) /\ HeadersBuilt(calls'[c])
              /\ TruthyStr(self.rsaPublicKey)) =>
                 /\ calls'[c].secretHeaders["X-Cf-Signature"] =
                        SignatureAt(self.clientId, clock)
                 /\ ~TokenResolved(calls[c]) /\ TokenResolved(calls'[c])
                 /\ calls'[c].now <= clock
                 /\ calls'[c].engineCalls > 0 =>
                        calls'[c].engineArgs.secretOptions.headers["X-Cf-Signature"] =
                            SignatureAt(self.clientId, clock)
    ]_vars

\* A proof call whose secret headers carry a signature other than the one its
\* authorize request was sent with.
C19_Witness ==
    \E c \in Calls :
        /\ calls[c].kind = "proveTransferStatus"
        /\ calls[c].authRequest # Absent
        /\ HeadersBuilt(calls[c])
        /\ "X-Cf-Signature" \in DOMAIN calls[c].secretHeaders
        /\ calls[c].secretHeaders["X-Cf-Signature"] #
               calls[c].authRequest.headers["X-Cf-Signature"]

\* The response is a JSON body with status SUCCESS and a non-empty token.
IsSuccessBody(resp) ==
    /\ resp.event = "end"
    /\ resp.body.json
    /\ resp.body.status = "SUCCESS"
    /\ resp.body.token \notin {Undefined, ""}

\* C20: a call's authorize exchange is one POST to the authorize endpoint; it
\* resolves with the token if and only if the body is JSON with status SUCCESS
\* and a non-empty token; any other JSON body rejects with the server's message
\* when there is one and with the raw body otherwise, a body that is not JSON
\* rejects with an invalid-response error; the promise waits for one response
\* and settles with it once.
C20_AuthorizeOutcome ==
    \A c \in Calls :
        LET call == calls[c]
            resp == call.authResponse
        IN  /\ call.authRequest # Absent =>
                /\ call.authSent = 1
                /\ call.authRequest.method = "POST"
                /\ call.authRequest.url =
                       CASHFREE_AUTH_DOMAINS[self.environment] \o "/payout/v1/authorize"
                /\ call.pc = "authorizing" <=> resp = Absent
            /\ resp # Absent =>
                /\ call.authRequest # Absent
                /\ IF IsSuccessBody(resp)
                   THEN /\ call.granted = resp.body.token
                        /\ call.token = resp.body.token
                   ELSE /\ resp.event \in {"end", "error"} => call.pc = "rejected"
                        /\ call.granted = Undefined
                        /\ call.token = Undefined
                        /\ resp.event = "end" =>
                              call.error =
                                 IF ~resp.body.json
                                 THEN "Cashfree authorize: invalid response: "
                                          \o resp.body.raw
                                 ELSE "Cashfree authorize failed: "
                                          \o (IF resp.body.message \in {Undefined, ""}
                                              THEN resp.body.raw
                                              ELSE resp.body.message)

\* A call rejected with the raw body of a SUCCESS response whose token is empty.
C20_Witness ==
    \E c \in Calls :
        /\ calls[c].authResponse # Absent
        /\ calls[c].authResponse.body.status = "SUCCESS"
        /\ calls[c].authResponse.body.token = ""
        /\ calls[c].pc = "rejected"
        /\ calls[c].error = "Cashfree authorize failed: " \o calls[c].authResponse.body.raw

\* C21: every getSecretHeaders, proveTransferStatus and proveTransferCreation
\* call eventually resolves or rejects, whichever way its authorization request
\* ends and whatever the proof engine returns or throws.
C21_EveryCallSettles ==
    \A c \in Calls : (calls[c].pc # "idle") ~> Settled(calls[c])

\* C22: with invalid key material every call rejects with the signing error:
\* without a fresh stored token before any authorize request is sent, with one
\* when the secret headers are built; the proof engine is not invoked, no
\* request is sent, nothing is tried again and the cache stays as the
\* constructor left it.
C22_InvalidKeyIsFatal ==
    self.rsaPublicKey = InvalidPem =>
        /\ cachedBearerToken = (IF TruthyStr(config.bearerToken)
                                THEN config.bearerToken ELSE Undefined)
        /\ bearerTokenExpiry = (IF TruthyStr(config.bearerToken)
                                THEN StartTime + CacheWindow ELSE NoExpiry)
        /\ \A c \in Calls :
            LET call == calls[c]
            IN  call.pc # "idle" =>
                    /\ call.pc = "rejected"
                    /\ call.error = "crypto error"
                    /\ call.authSent = 0
                    /\ call.authRequest = Absent
                    /\ call.engineCalls = 0
                    /\ call.engineArgs = Absent
                    /\ ~HeadersBuilt(call)
                    /\ call.result = Absent
                    /\ TokenResolved(call) <=> call.source = "cache"

\* A proof call on a client with a fresh stored token and invalid key material,
\* rejected when its secret headers were to be signed.
C22_Witness ==
    \E c \in Calls :
        /\ self.rsaPublicKey = InvalidPem
        /\ calls[c].kind = "proveTransferCreation"
        /\ calls[c].source = "cache"
        /\ calls[c].token = "B"
        /\ calls[c].pc = "rejected"

\* The error messages that are constant text: the two this module creates for
\* a missing proof, and the model's names for the errors it passes on from the
\* crypto library, the HTTP request and the proof engine.
ConstantErrors ==
    {"Failed to generate proof for transfer status",
     "Failed to generate proof for transfer creation",
     "crypto error", "request error", "engine error"}

\* The error messages cashfreeAuthorize builds from the response resp.
ResponseErrors(resp) ==
    IF resp = Absent THEN {}
    ELSE {"Cashfree authorize failed: " \o resp.body.message,
          "Cashfree authorize failed: " \o resp.body.raw,
          "Cashfree authorize: invalid response: " \o resp.body.raw}

\* The secret values a call holds that its authorization response did not send.
HeldSecrets(call) ==
    {s \in SecretStrings(call) \cup {self.clientSecret}
           \cup (IF call.authRequest = Absent THEN {}
                 ELSE {call.authRequest.headers[h] :
                          h \in DOMAIN call.authRequest.headers
                                  \cap {"X-Client-Secret", "X-Cf-Signature"}}) :
        /\ s \notin {self.clientId, ValidPem, InvalidPem}
        /\ call.authResponse = Absent \/ ~Contains(call.authResponse.body.raw, s)}

\* C23: the message of every error a call rejects with is constant text, or
\* constant text followed by the authorization server's message or raw body,
\* and holds neither the client secret nor a bearer token nor a signature the
\* client has.
C23_ErrorsHoldNoSecret ==
    \A c \in Calls :
        LET call == calls[c]
        IN  /\ call.error # Undefined =>
                /\ call.pc = "rejected"
                /\ call.error \in ConstantErrors \cup ResponseErrors(call.authResponse)
                /\ \A s \in HeldSecrets(call) : ~Contains(call.error, s)
            /\ call.pc = "rejected" => call.error # Undefined

\* A proof call of a client with a stored token and a key, rejected for a
\* missing proof after its secret headers were built.
C23_Witness ==
    \E c \in Calls :
        /\ calls[c].kind = "proveTransferStatus"
        /\ calls[c].pc = "rejected"
        /\ calls[c].error = "Failed to generate proof for transfer status"
        /\ DOMAIN calls[c].secretHeaders = AuthHeaderNames
        /\ calls[c].token # Undefined

\* C24: every header map the client builds is a new one: whatever a caller
\* wrote into a map getSecretHeaders returned to it earlier, the headers a later
\* getSecretHeaders call returns and the headers a proof call hands to the
\* engine hold the client's own values and the call's token.
C24_ReturnedMapIsACopy ==
    \A c \in Calls :
        LET call == calls[c]
        IN  HeadersBuilt(call) =>
                /\ call.secretHeaders["Authorization"] = "Bearer " \o call.token
                /\ call.secretHeaders["x-client-id"] = self.clientId
                /\ call.secretHeaders["x-client-secret"] = self.clientSecret
                /\ \A h \in DOMAIN call.secretHeaders :
                        call.secretHeaders[h] # Mutated
                /\ call.kind = "getSecretHeaders" =>
                        call.result = call.secretHeaders
                /\ call.engineArgs # Absent =>
                        call.engineArgs.secretOptions.headers = call.secretHeaders

\* A caller wrote into the map it kept, and a later getSecretHeaders call has
\* returned its headers from the cached token.
C24_Witness ==
    /\ held # NoHeaders
    /\ held["x-client-id"] = Mutated
    /\ \E c \in Calls :
            /\ calls[c].kind = "getSecretHeaders"
            /\ calls[c].pc = "resolved"
            /\ calls[c].source = "cache"
            /\ calls[c].result["x-client-id"] = self.clientId

\* C25: the base URL is the domain of the client's environment, character for
\* character: https://sandbox.cashfree.com for sandbox, https://api.cashfree.com
\* for production and for an omitted environment; the two differ; it stays what
\* the constructor made of the config; every proof url starts with it and every
\* authorize request goes to the auth domain of the same environment.
C25_BaseUrlFollowsEnvironment ==
    /\ config.environment = "sandbox" =>
            getBaseUrl = "https://sandbox.cashfree.com"
    /\ config.environment = "production" =>
            getBaseUrl = "https://api.cashfree.com"
    /\ config.environment = Undefined =>
            getBaseUrl = "https://api.cashfree.com"
    /\ CASHFREE_DOMAINS["sandbox"] # CASHFREE_DOMAINS["production"]
    /\ getBaseUrl = CASHFREE_DOMAINS[OrElse(config.environment, "production")]
    /\ \A c \in Calls :
        LET call == calls[c]
        IN  /\ call.kind \in ProofKinds =>
                SubSeq(call.url, 1, Len(getBaseUrl)) = getBaseUrl
            /\ call.authRequest # Absent =>
                call.authRequest.url =
                    (IF config.environment = "sandbox"
                     THEN "https://payout-gamma.cashfree.com"
                     ELSE "https://payout-api.cashfree.com")
                    \o "/payout/v1/authorize"

\* A client built with no environment has sent an authorize request, to the
\* production auth domain, for a proof call on the production base URL.
C25_Witness ==
    /\ config.environment = Undefined
    /\ \E c \in Calls :
            /\ calls[c].kind = "proveTransferStatus"
            /\ calls[c].authRequest # Absent
            /\ calls[c].authRequest.url =
                    "https://payout-api.cashfree.com/payout/v1/authorize"
            /\ clock > StartTime

\* The named-capture fallback patterns, one per field.
TRANSFER_STATUS_REGEX_FALLBACKS ==
    [transferId     |-> [regex |-> "\"transfer_id\"\\s*:\\s*\"(?<transfer_id>[^\"]+)\""],
     status         |-> [regex |-> "\"status\"\\s*:\\s*\"(?<status>[^\"]+)\""],
     cfTransferId   |->
        [regex |-> "\"cf_transfer_id\"\\s*:\\s*\"(?<cf_transfer_id>[^\"]+)\""],
     transferAmount |->
        [regex |-> "\"transfer_amount\"\\s*:\\s*(?<transfer_amount>[\\d.]+)"]]

\* The sample transfer-status response of the tests.
Sample ==
    "{\"transfer_id\":\"txn_123\",\"cf_transfer_id\":\"CF456\","
    \o "\"status\":\"SUCCESS\",\"transfer_amount\":100.50}"

\* The first position at or after i that holds a double quote (or is past the end).
RECURSIVE NextQuote(_, _)
NextQuote(s, i) == IF CharAt(s, i) \in {"\"", ""} THEN i ELSE NextQuote(s, i + 1)

\* [\d.]+ from position i: the first position at or after i that holds neither
\* a digit nor a dot.
RECURSIVE NumberEnd(_, _)
NumberEnd(s, i) ==
    IF CharAt(s, i) \in {"0", "1", "2", "3", "4", "5", "6", "7", "8", "9", "."}
    THEN NumberEnd(s, i + 1)
    ELSE i

\* What the named group of a pattern captures in body: the group of the
\* leftmost match, undefined when the pattern matches nowhere.
RegexCapture(pattern, body) ==
    IF \E f \in StringFields : pattern = StringFieldRegex(f)
    THEN LET f == CHOOSE g \in StringFields : pattern = StringFieldRegex(g)
             at == {i \in 1 .. Len(body) : StringFieldMatchesAt(body, f, i)}
         IN  IF at = {} THEN Undefined
             ELSE LET i == CHOOSE j \in at : \A k \in at : j <= k
                      colon == SkipSpace(body, i + Len(f) + 2)
                      open == SkipSpace(body, colon + 1)
                  IN  SubSeq(body, open + 1, NextQuote(body, open + 1) - 1)
    ELSE IF pattern = AmountRegex
    THEN LET at == {i \in 1 .. Len(body) : AmountMatchesAt(body, i)}
         IN  IF at = {} THEN Undefined
             ELSE LET i == CHOOSE j \in at : \A k \in at : j <= k
                      colon == SkipSpace(body, i + Len("\"transfer_amount\""))
                      first == SkipSpace(body, colon + 1)
                  IN  SubSeq(body, first, NumberEnd(body, first) - 1)
    ELSE Undefined

\* The last position of the JSON value that starts at position v of s: a
\* string up to its closing quote, an object up to its closing brace, any other
\* value up to the character before the next comma, brace or blank.
RECURSIVE ScalarEnd(_, _)
ScalarEnd(s, i) ==
    IF CharAt(s, i + 1) \in {",", "}", " ", ""} THEN i ELSE ScalarEnd(s, i + 1)

RECURSIVE ObjectEnd(_, _, _)
ObjectEnd(s, i, depth) ==
    CASE CharAt(s, i) = "" -> i
      [] CharAt(s, i) = "{" -> ObjectEnd(s, i + 1, depth + 1)
      [] CharAt(s, i) = "}" -> IF depth = 1 THEN i ELSE ObjectEnd(s, i + 1, depth - 1)
      [] OTHER -> ObjectEnd(s, i + 1, depth)

ValueEnd(s, v) ==
    CASE CharAt(s, v) = "\"" -> NextQuote(s, v + 1)
      [] CharAt(s, v) = "{" -> ObjectEnd(s, v, 0)
      [] OTHER -> ScalarEnd(s, v)

\* The value of member key of the JSON object whose members start at position
\* i of s (the opening quote of a name): the content of a string, the text of
\* any other value, undefined when the object has no such member.
RECURSIVE MemberValue(_, _, _)
MemberValue(s, key, i) ==
    IF CharAt(s, i) # "\"" THEN Undefined
    ELSE LET nameEnd == NextQuote(s, i + 1)
             name == SubSeq(s, i + 1, nameEnd - 1)
             colon == SkipSpace(s, nameEnd + 1)
             v == SkipSpace(s, colon + 1)
             vEnd == ValueEnd(s, v)
             next == SkipSpace(s, vEnd + 1)
         IN  IF name = key
             THEN IF CharAt(s, v) = "\"" THEN SubSeq(s, v + 1, vEnd - 1)
                  ELSE SubSeq(s, v, vEnd)
             ELSE IF CharAt(s, next) = ","
             THEN MemberValue(s, key, SkipSpace(s, next + 1))
             ELSE Undefined

\* What the structural path $.name selects in body: the member name of the
\* top-level object.
JsonPathValue(path, body) ==
    IF SubSeq(path, 1, 2) = "$." /\ CharAt(body, 1) = "{"
    THEN MemberValue(body, SubSeq(path, 3, Len(path)), SkipSpace(body, 2))
    ELSE Undefined

\* The fields of a status check, in the order of their extraction rules.
StatusFieldOrder == <<"transferId", "cfTransferId", "status", "transferAmount">>

\* The values of the sample response, per field.
SampleValues ==
    [transferId |-> "txn_123", cfTransferId |-> "CF456", status |-> "SUCCESS",
     transferAmount |-> "100.50"]

C27_ExpiryFromEntryClock ==
    /\ \A c \in Calls :
            calls[c].granted # Undefined =>
                bearerTokenExpiry = calls[c].now + CacheWindow
    /\ (TruthyStr(config.bearerToken) /\ cachedBearerToken = config.bearerToken) =>
            bearerTokenExpiry = StartTime + CacheWindow
    /\ TruthyStr(cachedBearerToken) =>
            /\ bearerTokenExpiry # NoExpiry
            /\ bearerTokenExpiry <= clock + CacheWindow

\* A refresh whose response arrived after the clock had moved on: the stored
\* expiry is less than 240 seconds ahead.
C27_Witness ==
    \E c \in Calls :
        /\ calls[c].granted # Undefined
        /\ calls[c].now < clock
        /\ cachedBearerToken = calls[c].granted
        /\ bearerTokenExpiry = calls[c].now + CacheWindow
        /\ bearerTokenExpiry < clock + CacheWindow

\* The two cache fields are both unset or both set.
BothOrNeither ==
    \/ cachedBearerToken = Undefined /\ bearerTokenExpiry = NoExpiry
    \/ TruthyStr(cachedBearerToken) /\ bearerTokenExpiry # NoExpiry

\* C28: with refreshes overlapping in any order, the two cache fields are
\* always both unset or both set; they change only in the step in which an
\* authorize request of some call completes with a token, and that step leaves
\* the pair of that call: the token it was granted and the expiry computed from
\* the clock value it read on entry. So the pair in the cache is the pair of
\* the refresh that completed last.
C28_PairWrittenTogether ==
    /\ []BothOrNeither
    /\ [][/\ \A c \in Calls :
               (calls[c].pc = "authorizing" /\ calls'[c].granted # Undefined) =>
                    /\ cachedBearerToken' = calls'[c].granted
                    /\ bearerTokenExpiry' = calls[c].now + CacheWindow
          /\ (cachedBearerToken' # cachedBearerToken
                    \/ bearerTokenExpiry' # bearerTokenExpiry) =>
               \E c \in Calls :
                    /\ calls[c].pc = "authorizing"
                    /\ calls'[c].granted # Undefined
                    /\ calls'[c].granted = cachedBearerToken']_vars

\* Two refreshes overlapped and the one that started first completed last: the
\* cache holds its token with the expiry it computed, the earlier of the two.
C28_Witness ==
    \E c, d \in Calls :
        /\ c # d
        /\ calls[c].granted # Undefined
        /\ calls[d].granted # Undefined
        /\ calls[c].granted # calls[d].granted
        /\ calls[d].now < calls[c].now
        /\ cachedBearerToken = calls[d].granted
        /\ bearerTokenExpiry = calls[d].now + CacheWindow

\* C29: a proof call sends at most one authorize request and invokes the proof
\* engine at most once, with the retries and retryInterval of its options as
\* they are and with the secret headers it built; once it has its token, and
\* once it has built its headers, the token, the headers (signature included),
\* the engine's arguments and both counts stay as they are until the call is
\* over, whatever the engine does and however far the clock moves.
C29_OnePassPerCall ==
    /\ [](\A c \in Calls :
            LET call == calls[c]
            IN  call.kind \in ProofKinds =>
                    /\ call.authSent <= 1
                    /\ call.engineCalls <= 1
                    /\ call.engineArgs # Absent =>
                            /\ call.engineCalls = 1
                            /\ call.engineArgs.retries = call.options.retries
                            /\ call.engineArgs.retryInterval =
                                    call.options.retryInterval
                            /\ call.engineArgs.secretOptions.headers =
                                    call.secretHeaders)
    /\ [][\A c \in Calls :
            (calls[c].kind \in ProofKinds /\ calls'[c].pc # "idle") =>
                /\ TokenResolved(calls[c]) =>
                        /\ calls'[c].token = calls[c].token
                        /\ calls'[c].authSent = calls[c].authSent
                /\ HeadersBuilt(calls[c]) =>
                        /\ calls'[c].secretHeaders = calls[c].secretHeaders
                        /\ calls'[c].engineArgs = calls[c].engineArgs
                        /\ calls'[c].engineCalls = calls[c].engineCalls]_vars

\* A status check made with retries 3 and retryInterval 500, after a refresh:
\* the engine has answered it once the clock had moved on.
C29_Witness ==
    \E c \in Calls :
        /\ calls[c].kind = "proveTransferStatus"
        /\ calls[c].options.retries = "3"
        /\ calls[c].authSent = 1
        /\ calls[c].engineCalls = 1
        /\ calls[c].engineArgs.retries = "3"
        /\ calls[c].engineArgs.retryInterval = "500"
        /\ calls[c].engineReturn # Absent
        /\ calls[c].now < clock
        /\ "X-Cf-Signature" \in DOMAIN calls[c].secretHeaders

\* C30: clientId, clientSecret, rsaPublicKey, environment, baseUrl, apiVersion,
\* useTee and geoLocation are at every moment what the constructor made of the
\* config, and no step changes them; a step changes cachedBearerToken or
\* bearerTokenExpiry only when it is the completion of some call's authorize
\* request with a SUCCESS body and a token, the token then stored.
C30_OnlyTheCacheChanges ==
    /\ [](self = [f \in ConfigFields |-> Constructor(config, StartTime)[f]])
    /\ [][/\ config' = config
          /\ self' = self
          /\ (cachedBearerToken' # cachedBearerToken
                    \/ bearerTokenExpiry' # bearerTokenExpiry) =>
               \E c \in Calls :
                    /\ calls[c].pc = "authorizing"
                    /\ calls'[c].authResponse # Absent
                    /\ IsSuccessBody(calls'[c].authResponse)
                    /\ cachedBearerToken' = calls'[c].authResponse.body.token]_vars

\* The token given to the constructor has been replaced by a refresh, and a
\* later call has failed to authorize, with other calls still under way.
C30_Witness ==
    /\ config.bearerToken = "B"
    /\ cachedBearerToken \in ServerTokens
    /\ \E c, d \in Calls :
            /\ c # d
            /\ calls[c].pc = "rejected"
            /\ calls[c].authSent = 1
            /\ calls[d].pc = "engine"

\* The four default redaction rules of a status check, in their order.
StatusRedactionDefaults ==
    <<[jsonPath |-> "$.transfer_id"], [jsonPath |-> "$.cf_transfer_id"],
      [jsonPath |-> "$.status"], [jsonPath |-> "$.transfer_amount"]>>

\* C31: the shared constants are at every moment what the module defines;
\* every call of getTransferStatusRedactions leaves the caller's array as it
\* was and returns the four defaults followed by the rules passed to this call
\* alone, every call of getTransferStatusMatches returns the four extraction
\* rules, after the assertion of the status passed to this call alone; so a
\* call without arguments returns exactly the defaults whatever calls came
\* before and whatever the caller did with the lists it was returned.
C31_ExtraRulesDoNotPersist ==
    /\ [](rules.shared = TRANSFER_STATUS_REDACTIONS)
    /\ [][Len(rules'.log) > Len(rules.log) =>
            LET made == rules'.log[Len(rules'.log)]
            IN  /\ rules'.input = rules.input
                /\ made.fn = "getTransferStatusRedactions" =>
                        /\ rules'.redactions = StatusRedactionDefaults \o made.extra
                        /\ rules'.matches = rules.matches
                /\ made.fn = "getTransferStatusMatches" =>
                        /\ rules'.matches =
                               (IF made.status = Undefined THEN <<>>
                                ELSE <<[type |-> "contains",
                                        value |-> "\"status\":\"" \o made.status
                                                  \o "\""]>>)
                               \o StatusExtractionRules
                        /\ rules'.redactions = rules.redactions]_vars

\* After a call with two extra rules and a call with an expected status, a
\* call of each builder without arguments has returned exactly the defaults,
\* and the caller's array still holds its two rules.
C31_Witness ==
    /\ Len(rules.log) = 3
    /\ rules.log[1].fn = "getTransferStatusRedactions"
    /\ Len(rules.log[1].extra) = 2
    /\ rules.log[2].fn = "getTransferStatusMatches"
    /\ rules.log[2].status = "SUCCESS"
    /\ rules.log[3].fn = "getTransferStatusRedactions"
    /\ rules.log[3].extra = <<>>
    /\ rules.redactions = StatusRedactionDefaults
    /\ Len(rules.input) = 2

\* C32: the proof of every result a proof call resolves with is the proof the
\* engine returned to that call, as the engine returned it: one of the
\* engine's proofs, with the extracted values it came with, or with none when
\* it came with none.
C32_ProofReturnedAsReceived ==
    \A c \in Calls :
        LET call == calls[c]
        IN  (call.kind \in ProofKinds /\ call.pc = "resolved") =>
                /\ call.engineReturn # Absent
                /\ call.engineReturn.type = "proof"
                /\ call.result.proof = call.engineReturn.proof
                /\ call.result.proof \in Proofs
                /\ ("extractedParameterValues" \in DOMAIN call.result.proof) =
                       ("extractedParameterValues" \in DOMAIN call.engineReturn.proof)

\* A creation call resolved from a proof that came without extracted values:
\* the typed fields hold the defaults and the proof still has none.
C32_Witness ==
    \E c \in Calls :
        /\ calls[c].kind = "proveTransferCreation"
        /\ calls[c].pc = "resolved"
        /\ calls[c].engineReturn.proof.id = "p2"
        /\ calls[c].result.transferId = ""
        /\ "extractedParameterValues" \notin DOMAIN calls[c].result.proof

====
